---------------------------- MODULE Spec2Model ----------------------------
(***************************************************************************)
(* MCServerNap: the server-lifecycle state machine, the connection         *)
(* dispatcher (main_loop), the RCON idle watchdog, the child waiter and    *)
(* the Ctrl+C shutdown coordinator.                                        *)
(*                                                                         *)
(* Time is counted in seconds.  Every deadline of the code is a countdown  *)
(* (sleep, ticker, lock-acquisition timeout) or an age (time since start,  *)
(* time since last_online).  Two time steps exist: Tick lets one second    *)
(* pass and is blocked while a task is due (used by SpecWatchdog, where    *)
(* the watchdog's timing is the subject); Pass lets a time longer than     *)
(* every deadline pass at once (used by Spec, where only the order of the  *)
(* events matters).                                                        *)
(***************************************************************************)
EXTENDS Integers, Sequences, FiniteSets

\* ------------------------------------------------------------ bounds
\* Number of launch_server calls a behaviour may contain.
MaxLaunch == 2
\* Configured rcon_poll_interval is drawn from 1..MaxPoll (seconds).
MaxPoll == 2
\* Configured rcon_idle_timeout is drawn from 0..MaxIdle (seconds).
MaxIdle == 3
\* Number of switch_to calls the transition harness makes.
MaxCalls == 4

\* Number of bytes after which the write_varint loop is no longer followed.
MaxBytes == 7

\* Longest byte buffer handed to read_varint.
MaxLen == 6
\* Longest server address of a crafted handshake, in bytes.
MaxAddr == 2
\* Largest number n of bytes the first read returns when the bytes are
\* arbitrary (the buffer of the code holds 512).
MaxRecv == 7

\* -------------------------------------------------- program constants
\* lib.rs:187  start.elapsed() <= Duration::from_secs(600)
ConnectLimit == 600
\* lib.rs:189 and lib.rs:248  sleep(Duration::from_secs(1))
RetrySleep == 1
\* lib.rs:241  consecutive_errors < 5
MaxRetries == 5
\* lib.rs:195, lib.rs:216, lib.rs:254, main.rs:247  timeout(5 s, lock())
LockTimeout == 5
\* main.rs:131  sleep(Duration::from_secs(10))
StopGrace == 10
\* The deadlines of the awaits main_loop makes with the guard held, seconds.
ReadLimit == 5
DrainLimit == 5
WriteLimit == 5

\* Run r is the r-th launch of the behaviour; run 0 is a launch made before
\* the behaviour starts (used by SpecRelaunch only).
Runs == 0..MaxLaunch
ServerState == {"Stopped", "Starting", "Running"}

VARIABLES
  state,        \* the ServerState behind the mutex
  lock,         \* "free", or "disp" while main_loop holds the guard
  proc,         \* the supervisor process: "up", "exited", "aborted"
  dpc,          \* main_loop: "accept", "cooldown", "inspect", "refuse",
                \*            "returned", "cancelled"
  branch,       \* the match arm main_loop took for the last accepted
                \* connection: "none", "Stopped", "Starting", "Running"
  served,       \* what the last accepted connection got
  launched,     \* number of successful launch_server calls
  child,        \* per run: "none", "alive", "exited"
  stopRecv,     \* per run: the game server received `stop`
  wpc,          \* per run, idle_watchdog_rcon's position
  wErr,         \* per run, consecutive_errors
  wElapsed,     \* per run, start.elapsed()
  wIdle,        \* per run, last_online.elapsed()
  wNext,        \* per run, time to the ticker's next tick
  wSleep,       \* per run, time left of the 1 s sleep
  wLockT,       \* per run, time left of the watchdog's lock timeout
  wSkew,        \* per run, time from connect success to last_online's first value
  tpc,          \* per run, the child waiter's position
  tLockT,       \* per run, time left of the waiter's lock timeout
  cpc,          \* shutdown coordinator: "idle", "stopcmd", "sleep", "done"
  cTimer,       \* time left of the coordinator's 10 s sleep
  pollInterval, \* config.rcon_poll_interval
  idleTimeout,  \* config.rcon_idle_timeout
  calls,        \* transition harness: the calls made so far
  vpc,          \* codec harness: the step the function under test is at
  vin,          \* codec harness: the i32 handed to write_varint
  vval,         \* write_varint: the local val
  vbuf,         \* the byte buffer written to / read from
  vres,         \* the value returned by the function under test
  hs,           \* packet harness: the fields the client put on the wire
  peer,         \* packet harness: how the client's socket behaves
  hres,         \* the value returned by verify_handshake_packet
  hout,         \* what was written to the client's socket
  ppc,          \* the proxy task spawned last: "none", "dial", "splice",
                \* "closed", "failed"
  dHeld,        \* seconds main_loop has held the guard (timed dispatcher)
  dOp           \* seconds the await main_loop is suspended in has lasted

vars == <<state, lock, proc, dpc, branch, served, launched, child, stopRecv,
          wpc, wErr, wElapsed, wIdle, wNext, wSleep, wLockT, wSkew,
          tpc, tLockT, cpc, cTimer, pollInterval, idleTimeout, calls,
          vpc, vin, vval, vbuf, vres, hs, peer, hres, hout, ppc,
          dHeld, dOp>>

dispVars  == <<dpc, branch, served>>
wdVars    == <<wpc, wErr, wElapsed, wIdle, wNext, wSleep, wLockT, wSkew>>
coordVars == <<cpc, cTimer>>
hsVars    == <<hs, peer, hres, hout>>
codecVars == <<vpc, vin, vval, vbuf, vres, hsVars>>
restVars  == <<pollInterval, idleTimeout, calls, codecVars>>
holdVars  == <<dHeld, dOp>>
cfgVars   == <<restVars, ppc, holdVars>>

\* ------------------------------------------------------------ switch_to
\* A variant that also lets a Stopped supervisor be declared Running.
SwitchLegalSkipStarting(cur, new) ==
  \/ cur = "Stopped"  /\ new = "Starting"
  \/ cur = "Stopped"  /\ new = "Running"
  \/ cur = "Starting" /\ new = "Running"
  \/ cur = "Starting" /\ new = "Stopped"
  \/ cur = "Running"  /\ new = "Stopped"
  \/ cur = "Stopped"  /\ new = "Stopped"

\* The legal edges of the lifecycle graph, and the Stopped self-transition.
SwitchLegal(cur, new) ==
  \/ cur = "Stopped"  /\ new = "Starting"
  \/ cur = "Starting" /\ new = "Running"
  \/ cur = "Starting" /\ new = "Stopped"
  \/ cur = "Running"  /\ new = "Stopped"
  \/ cur = "Stopped"  /\ new = "Stopped"

\* switch_to(new) on a state holding cur: the result and the state afterwards.
\* ServerState is a fieldless Copy enum (lib.rs:17-22) and the watchdog's
\* JoinHandle is owned by the waiter (main.rs:242): the operation compares and
\* assigns, it holds no task handle it could cancel.
switch_to(cur, new) ==
  [ok |-> SwitchLegal(cur, new),
   state |-> IF SwitchLegal(cur, new) THEN new ELSE cur]

\* ------------------------------------------------------------ helpers
Min(a, b) == IF a < b THEN a ELSE b
Dec(x, d) == IF x > d THEN x - d ELSE 0

WdConnectPcs == {"connect", "retry"}
WdLockPcs    == {"lock_ready", "lock_giveup", "lock_fail"}
WdPollPcs    == {"tick", "backoff"}
WdLivePcs    == WdConnectPcs \cup WdLockPcs \cup WdPollPcs

\* Saturation value of last_online.elapsed(): one poll past the idle timeout.
IdleCap == idleTimeout + pollInterval

\* ------------------------------------------------------------ Init
\* main(): state Stopped, nothing launched, main_loop about to accept.
InitTasks ==
  /\ state = "Stopped"
  /\ lock = "free"
  /\ proc = "up"
  /\ dpc = "accept"
  /\ branch = "none"
  /\ served = "none"
  /\ launched = 0
  /\ child = [r \in Runs |-> "none"]
  /\ stopRecv = [r \in Runs |-> FALSE]
  /\ wpc = [r \in Runs |-> "none"]
  /\ wErr = [r \in Runs |-> 0]
  /\ wElapsed = [r \in Runs |-> 0]
  /\ wIdle = [r \in Runs |-> 0]
  /\ wNext = [r \in Runs |-> 0]
  /\ wSleep = [r \in Runs |-> 0]
  /\ wLockT = [r \in Runs |-> 0]
  /\ wSkew = [r \in Runs |-> 0]
  /\ tpc = [r \in Runs |-> "none"]
  /\ tLockT = [r \in Runs |-> 0]
  /\ cpc = "idle"
  /\ cTimer = 0
  /\ calls = <<>>
  /\ ppc = "none"
  /\ dHeld = 0 /\ dOp = 0

\* No connection is being inspected.
NoHandshake ==
  [id |-> 0, proto |-> 0, addr |-> 0, alen |-> 0, ns |-> 0, tail |-> 0,
   cut |-> 0]
QuietPeer ==
  [read |-> "data", drain |-> "data", write |-> "ok", shutdown |-> "ok"]
HsIdle ==
  /\ hs = NoHandshake
  /\ peer = QuietPeer
  /\ hres = "none"
  /\ hout = "nothing"

\* No varint or packet function is under test.
CodecIdle ==
  /\ vpc = "idle"
  /\ vin = 0
  /\ vval = 0
  /\ vbuf = <<>>
  /\ vres = [ok |-> FALSE, value |-> 0, len |-> 0]
  /\ HsIdle

\* Under Pass every positive timeout behaves alike, so Spec draws the idle
\* timeout from the two extremes only.
Init ==
  /\ InitTasks
  /\ CodecIdle
  /\ pollInterval = 1
  /\ idleTimeout \in {0, MaxIdle}

\* The state right after main_loop has launched the first child: the state is
\* Starting, the watchdog is about to connect, the waiter waits.
InitWatchdog ==
  /\ state = "Starting"
  /\ lock = "free"
  /\ proc = "up"
  /\ dpc = "accept"
  /\ branch = "none"
  /\ served = "refusal"
  /\ launched = 1
  /\ child = [r \in Runs |-> IF r = 1 THEN "alive" ELSE "none"]
  /\ stopRecv = [r \in Runs |-> FALSE]
  /\ wpc = [r \in Runs |-> IF r = 1 THEN "connect" ELSE "none"]
  /\ wErr = [r \in Runs |-> 0]
  /\ wElapsed = [r \in Runs |-> 0]
  /\ wIdle = [r \in Runs |-> 0]
  /\ wNext = [r \in Runs |-> 0]
  /\ wSleep = [r \in Runs |-> 0]
  /\ wLockT = [r \in Runs |-> 0]
  /\ wSkew = [r \in Runs |-> 0]
  /\ tpc = [r \in Runs |-> IF r = 1 THEN "wait" ELSE "none"]
  /\ tLockT = [r \in Runs |-> 0]
  /\ cpc = "idle"
  /\ cTimer = 0
  /\ calls = <<>>
  /\ ppc = "none"
  /\ dHeld = 0 /\ dOp = 0
  /\ CodecIdle
  /\ pollInterval \in 1..MaxPoll
  /\ idleTimeout \in 0..MaxIdle

\* ------------------------------------------------------------ main_loop
\* listener.accept() fails: log, sleep 100 ms, continue.
DispAcceptErr ==
  /\ proc = "up" /\ dpc = "accept"
  /\ dpc' = "cooldown"
  /\ UNCHANGED <<state, lock, proc, branch, served, launched, child, stopRecv,
                 wdVars, tpc, tLockT, coordVars, cfgVars>>

DispCooldownDone ==
  /\ proc = "up" /\ dpc = "cooldown"
  /\ dpc' = "accept"
  /\ UNCHANGED <<state, lock, proc, branch, served, launched, child, stopRecv,
                 wdVars, tpc, tLockT, coordVars, cfgVars>>

\* accept succeeds but set_nodelay(true)? fails: main_loop returns the error,
\* the select! in main completes and the process ends.
DispNodelayFail ==
  /\ proc = "up" /\ dpc = "accept"
  /\ dpc' = "returned"
  /\ proc' = "exited"
  /\ UNCHANGED <<state, lock, branch, served, launched, child, stopRecv,
                 wdVars, tpc, tLockT, coordVars, cfgVars>>

\* accept succeeds, the lock is taken and the state is Stopped or Starting:
\* verify_handshake_packet starts reading with the guard held.
DispAccept ==
  /\ proc = "up" /\ dpc = "accept" /\ lock = "free"
  /\ state \in {"Stopped", "Starting"}
  /\ state = "Stopped" => launched < MaxLaunch
  /\ dpc' = "inspect"
  /\ branch' = state
  /\ lock' = "disp"
  /\ served' = "none"
  /\ UNCHANGED <<state, proc, launched, child, stopRecv,
                 wdVars, tpc, tLockT, coordVars, cfgVars>>

\* A variant of the Running arm that dials the game server itself, with the
\* guard held.
DispProxyHoldsLock ==
  /\ proc = "up" /\ dpc = "accept" /\ lock = "free"
  /\ state = "Running"
  /\ served' = "proxy"
  /\ branch' = "Running"
  /\ ppc' = "dial"
  /\ lock' = "disp"
  /\ UNCHANGED <<state, proc, dpc, launched, child, stopRecv,
                 wdVars, tpc, tLockT, coordVars, restVars, holdVars>>

\* accept succeeds, the lock is taken and the state is Running: the proxy task
\* is spawned and the guard is dropped at the end of the block, with no await
\* in between.
DispProxy ==
  /\ proc = "up" /\ dpc = "accept" /\ lock = "free"
  /\ state = "Running"
  /\ served' = "proxy"
  /\ branch' = "Running"
  /\ ppc' = "dial"
  /\ UNCHANGED <<state, lock, proc, dpc, launched, child, stopRecv,
                 wdVars, tpc, tLockT, coordVars, restVars, holdVars>>

\* The spawned proxy task: TcpStream::connect to the game server returns
\* (Err is logged and the task ends).
ProxyDial(ok) ==
  /\ proc = "up" /\ ppc = "dial"
  /\ ppc' = IF ok THEN "splice" ELSE "failed"
  /\ UNCHANGED <<state, lock, proc, dispVars, launched, child, stopRecv,
                 wdVars, tpc, tLockT, coordVars, restVars, holdVars>>

\* copy_bidirectional returns and both sockets are shut down.
ProxySpliceEnd ==
  /\ proc = "up" /\ ppc = "splice"
  /\ ppc' = "closed"
  /\ UNCHANGED <<state, lock, proc, dispVars, launched, child, stopRecv,
                 wdVars, tpc, tLockT, coordVars, restVars, holdVars>>

\* A variant in which a status probe wakes the server like a login does.
DispIgnoreWakes(outcome) ==
  /\ proc = "up" /\ dpc = "inspect"
  /\ served' = IF outcome = "status" THEN "motd" ELSE "dropped"
  /\ state' = IF outcome = "status" THEN "Starting" ELSE state
  /\ dpc' = "accept"
  /\ lock' = "free"
  /\ UNCHANGED <<branch, proc, launched, child, stopRecv,
                 wdVars, tpc, tLockT, coordVars, cfgVars>>

\* verify_handshake_packet returns Ok(false) (outcome "status": the MOTD was
\* written; "ignore": close, reset, timeout, malformed, unknown intent) or
\* Err ("fail"): the arm yields false, the guard is dropped.
DispIgnore(outcome) ==
  /\ proc = "up" /\ dpc = "inspect"
  /\ served' = IF outcome = "status" THEN "motd" ELSE "dropped"
  /\ dpc' = "accept"
  /\ UNCHANGED branch
  /\ lock' = "free"
  /\ UNCHANGED <<state, proc, launched, child, stopRecv,
                 wdVars, tpc, tLockT, coordVars, cfgVars>>

\* verify_handshake_packet returns Ok(true): send_starting_message begins.
DispLogin ==
  /\ proc = "up" /\ dpc = "inspect"
  /\ dpc' = "refuse"
  /\ UNCHANGED <<state, lock, proc, branch, served, launched, child, stopRecv,
                 wdVars, tpc, tLockT, coordVars, cfgVars>>

\* A variant of the Stopped arm that gives up when the refusal was not
\* delivered.
DispStartNeedsDelivery(delivered) ==
  /\ proc = "up" /\ dpc = "refuse" /\ branch = "Stopped"
  /\ launched < MaxLaunch
  /\ LET r == launched + 1 IN
       /\ served' = IF delivered THEN "refusal" ELSE "dropped"
       /\ state' = IF delivered THEN switch_to(state, "Starting").state ELSE state
       /\ launched' = IF delivered THEN r ELSE launched
       /\ child' = IF delivered THEN [child EXCEPT ![r] = "alive"] ELSE child
       /\ wpc' = IF delivered THEN [wpc EXCEPT ![r] = "connect"] ELSE wpc
       /\ tpc' = IF delivered THEN [tpc EXCEPT ![r] = "wait"] ELSE tpc
  /\ dpc' = "accept"
  /\ UNCHANGED branch
  /\ lock' = "free"
  /\ UNCHANGED <<proc, stopRecv, wErr, wElapsed, wIdle, wNext, wSleep, wLockT,
                 wSkew, tLockT, coordVars, cfgVars>>

\* Stopped arm, after send_starting_message (delivered or not, its error is
\* only logged): switch_to(Starting), launch_server succeeds, the watchdog and
\* the waiter are spawned, the guard is dropped.
DispStart(delivered) ==
  /\ proc = "up" /\ dpc = "refuse" /\ branch = "Stopped"
  /\ launched < MaxLaunch
  /\ LET r == launched + 1 IN
       /\ served' = IF delivered THEN "refusal" ELSE "dropped"
       /\ state' = switch_to(state, "Starting").state
       /\ launched' = r
       /\ child' = [child EXCEPT ![r] = "alive"]
       /\ wpc' = [wpc EXCEPT ![r] = "connect"]
       /\ tpc' = [tpc EXCEPT ![r] = "wait"]
  /\ dpc' = "accept"
  /\ UNCHANGED branch
  /\ lock' = "free"
  /\ UNCHANGED <<proc, stopRecv, wErr, wElapsed, wIdle, wNext, wSleep, wLockT,
                 wSkew, tLockT, coordVars, cfgVars>>

\* Stopped arm, launch_server(...)? fails: the state was already switched,
\* main_loop returns the error and the process ends.
DispStartFail(delivered) ==
  /\ proc = "up" /\ dpc = "refuse" /\ branch = "Stopped"
  /\ served' = IF delivered THEN "refusal" ELSE "dropped"
  /\ state' = switch_to(state, "Starting").state
  /\ dpc' = "returned"
  /\ UNCHANGED branch
  /\ lock' = "free"
  /\ proc' = "exited"
  /\ UNCHANGED <<launched, child, stopRecv, wdVars, tpc, tLockT, coordVars,
                 cfgVars>>

\* A variant of the Starting arm that launches again.
DispNotifyRelaunch(delivered) ==
  /\ proc = "up" /\ dpc = "refuse" /\ branch = "Starting"
  /\ launched < MaxLaunch
  /\ served' = IF delivered THEN "refusal" ELSE "dropped"
  /\ launched' = launched + 1
  /\ child' = [child EXCEPT ![launched + 1] = "alive"]
  /\ wpc' = [wpc EXCEPT ![launched + 1] = "connect"]
  /\ tpc' = [tpc EXCEPT ![launched + 1] = "wait"]
  /\ dpc' = "accept"
  /\ lock' = "free"
  /\ UNCHANGED <<state, branch, proc, stopRecv, wErr, wElapsed, wIdle, wNext,
                 wSleep, wLockT, wSkew, tLockT, coordVars, cfgVars>>

\* Starting arm, after send_starting_message: nothing else, the guard is
\* dropped.
DispNotify(delivered) ==
  /\ proc = "up" /\ dpc = "refuse" /\ branch = "Starting"
  /\ served' = IF delivered THEN "refusal" ELSE "dropped"
  /\ dpc' = "accept"
  /\ UNCHANGED branch
  /\ lock' = "free"
  /\ UNCHANGED <<state, proc, launched, child, stopRecv,
                 wdVars, tpc, tLockT, coordVars, cfgVars>>

\* ------------------------------------------------------------ idle_watchdog_rcon
\* A variant of the connect loop that compares the elapsed time with <.
WdConnectStrict(r, ok) ==
  /\ proc = "up" /\ wpc[r] = "connect"
  /\ IF ok
       THEN /\ wpc' = [wpc EXCEPT ![r] = "lock_ready"]
            /\ wLockT' = [wLockT EXCEPT ![r] = LockTimeout]
            /\ wElapsed' = [wElapsed EXCEPT ![r] = 0]
            /\ UNCHANGED wSleep
       ELSE IF wElapsed[r] < ConnectLimit
         THEN /\ wpc' = [wpc EXCEPT ![r] = "retry"]
              /\ wSleep' = [wSleep EXCEPT ![r] = RetrySleep]
              /\ UNCHANGED <<wLockT, wElapsed>>
         ELSE /\ wpc' = [wpc EXCEPT ![r] = "lock_giveup"]
              /\ wLockT' = [wLockT EXCEPT ![r] = LockTimeout]
              /\ wElapsed' = [wElapsed EXCEPT ![r] = 0]
              /\ UNCHANGED wSleep
  /\ UNCHANGED <<state, lock, proc, dispVars, launched, child, stopRecv,
                 wErr, wIdle, wNext, wSkew, tpc, tLockT, coordVars, cfgVars>>

\* Connection::connect(...) in the connect loop.  Ok: leave the loop and wait
\* for the lock to record Running.  Err while start.elapsed() <= 600 s: sleep
\* 1 s and retry.  Err after that: wait for the lock to record Stopped.
WdConnect(r, ok) ==
  /\ proc = "up" /\ wpc[r] = "connect"
  /\ IF ok
       THEN /\ wpc' = [wpc EXCEPT ![r] = "lock_ready"]
            /\ wLockT' = [wLockT EXCEPT ![r] = LockTimeout]
            /\ wElapsed' = [wElapsed EXCEPT ![r] = 0]
            /\ UNCHANGED wSleep
       ELSE IF wElapsed[r] <= ConnectLimit
         THEN /\ wpc' = [wpc EXCEPT ![r] = "retry"]
              /\ wSleep' = [wSleep EXCEPT ![r] = RetrySleep]
              /\ UNCHANGED <<wLockT, wElapsed>>
         ELSE /\ wpc' = [wpc EXCEPT ![r] = "lock_giveup"]
              /\ wLockT' = [wLockT EXCEPT ![r] = LockTimeout]
              /\ wElapsed' = [wElapsed EXCEPT ![r] = 0]
              /\ UNCHANGED wSleep
  /\ UNCHANGED <<state, lock, proc, dispVars, launched, child, stopRecv,
                 wErr, wIdle, wNext, wSkew, tpc, tLockT, coordVars, cfgVars>>

\* The 1 s sleep of the connect loop is over.
WdRetryWake(r) ==
  /\ proc = "up" /\ wpc[r] = "retry" /\ wSleep[r] = 0
  /\ wpc' = [wpc EXCEPT ![r] = "connect"]
  /\ UNCHANGED <<state, lock, proc, dispVars, launched, child, stopRecv,
                 wErr, wElapsed, wIdle, wNext, wSleep, wLockT, wSkew,
                 tpc, tLockT, coordVars, cfgVars>>

\* The lock is acquired after a successful connect: *state = Running, the
\* guard is dropped, the ticker (first tick immediate), last_online and
\* consecutive_errors are initialised.
WdSetRunning(r) ==
  /\ proc = "up" /\ wpc[r] = "lock_ready" /\ lock = "free"
  /\ state' = "Running"
  /\ wpc' = [wpc EXCEPT ![r] = "tick"]
  /\ wNext' = [wNext EXCEPT ![r] = 0]
  /\ wIdle' = [wIdle EXCEPT ![r] = 0]
  /\ wErr' = [wErr EXCEPT ![r] = 0]
  /\ wSkew' = [wSkew EXCEPT ![r] = LockTimeout - wLockT[r]]
  /\ wLockT' = [wLockT EXCEPT ![r] = 0]
  /\ UNCHANGED <<lock, proc, dispVars, launched, child, stopRecv,
                 wElapsed, wSleep, tpc, tLockT, coordVars, cfgVars>>

\* The lock is acquired after the connect loop gave up, or after the 6th
\* consecutive `list` failure: *state = Stopped, return Err.
WdSetStopped(r) ==
  /\ proc = "up" /\ wpc[r] \in {"lock_giveup", "lock_fail"} /\ lock = "free"
  /\ state' = "Stopped"
  /\ wpc' = [wpc EXCEPT ![r] = "done_err"]
  /\ wLockT' = [wLockT EXCEPT ![r] = 0]
  /\ wErr' = [wErr EXCEPT ![r] = 0]
  /\ wIdle' = [wIdle EXCEPT ![r] = 0]
  /\ wNext' = [wNext EXCEPT ![r] = 0]
  /\ wSkew' = [wSkew EXCEPT ![r] = 0]
  /\ UNCHANGED <<lock, proc, dispVars, launched, child, stopRecv,
                 wElapsed, wSleep, tpc, tLockT, coordVars, cfgVars>>

\* timeout(5 s, server_state.lock()) expires in the watchdog: panic!, which
\* ends the watchdog task.
WdLockTimeout(r) ==
  /\ proc = "up" /\ wpc[r] \in WdLockPcs /\ lock # "free" /\ wLockT[r] = 0
  /\ wpc' = [wpc EXCEPT ![r] = "panicked"]
  /\ wErr' = [wErr EXCEPT ![r] = 0]
  /\ wIdle' = [wIdle EXCEPT ![r] = 0]
  /\ wNext' = [wNext EXCEPT ![r] = 0]
  /\ wSkew' = [wSkew EXCEPT ![r] = 0]
  /\ UNCHANGED <<state, lock, proc, dispVars, launched, child, stopRecv,
                 wElapsed, wSleep, wLockT, tpc, tLockT, coordVars, cfgVars>>

\* A variant of the poll body that compares the idle time with > instead of >=.
ListResultStrict(r, ok, count, stopOk, next) ==
  IF ~ok
    THEN IF wErr[r] < MaxRetries
      THEN /\ wErr' = [wErr EXCEPT ![r] = wErr[r] + 1]
           /\ wpc' = [wpc EXCEPT ![r] = "backoff"]
           /\ wSleep' = [wSleep EXCEPT ![r] = RetrySleep]
           /\ wNext' = [wNext EXCEPT ![r] = next]
           /\ UNCHANGED <<wIdle, wLockT, wSkew, stopRecv>>
      ELSE /\ wpc' = [wpc EXCEPT ![r] = "lock_fail"]
           /\ wLockT' = [wLockT EXCEPT ![r] = LockTimeout]
           /\ wNext' = [wNext EXCEPT ![r] = next]
           /\ UNCHANGED <<wErr, wSleep, wIdle, wSkew, stopRecv>>
    ELSE IF count > 0
      THEN /\ wErr' = [wErr EXCEPT ![r] = 0]
           /\ wIdle' = [wIdle EXCEPT ![r] = 0]
           /\ wSkew' = [wSkew EXCEPT ![r] = 0]
           /\ wpc' = [wpc EXCEPT ![r] = "tick"]
           /\ wNext' = [wNext EXCEPT ![r] = next]
           /\ UNCHANGED <<wSleep, wLockT, stopRecv>>
      ELSE IF wIdle[r] > idleTimeout
        THEN /\ wpc' = [wpc EXCEPT ![r] = "done_ok"]
             /\ stopRecv' = [stopRecv EXCEPT ![r] = @ \/ (stopOk /\ child[r] = "alive")]
             /\ wErr' = [wErr EXCEPT ![r] = 0]
             /\ wNext' = [wNext EXCEPT ![r] = 0]
             /\ wSkew' = [wSkew EXCEPT ![r] = 0]
             /\ UNCHANGED <<wSleep, wLockT, wIdle>>
        ELSE /\ wErr' = [wErr EXCEPT ![r] = 0]
             /\ wpc' = [wpc EXCEPT ![r] = "tick"]
             /\ wNext' = [wNext EXCEPT ![r] = next]
             /\ UNCHANGED <<wSleep, wIdle, wLockT, wSkew, stopRecv>>

\* A variant of the poll body in which a reply with players online does not
\* clear consecutive_errors.
ListResultKeepsCount(r, ok, count, stopOk, next) ==
  IF ~ok
    THEN IF wErr[r] < MaxRetries
      THEN /\ wErr' = [wErr EXCEPT ![r] = wErr[r] + 1]
           /\ wpc' = [wpc EXCEPT ![r] = "backoff"]
           /\ wSleep' = [wSleep EXCEPT ![r] = RetrySleep]
           /\ wNext' = [wNext EXCEPT ![r] = next]
           /\ UNCHANGED <<wIdle, wLockT, wSkew, stopRecv>>
      ELSE /\ wpc' = [wpc EXCEPT ![r] = "lock_fail"]
           /\ wLockT' = [wLockT EXCEPT ![r] = LockTimeout]
           /\ wNext' = [wNext EXCEPT ![r] = next]
           /\ UNCHANGED <<wErr, wSleep, wIdle, wSkew, stopRecv>>
    ELSE IF count > 0
      THEN /\ wErr' = wErr
           /\ wIdle' = [wIdle EXCEPT ![r] = 0]
           /\ wSkew' = [wSkew EXCEPT ![r] = 0]
           /\ wpc' = [wpc EXCEPT ![r] = "tick"]
           /\ wNext' = [wNext EXCEPT ![r] = next]
           /\ UNCHANGED <<wSleep, wLockT, stopRecv>>
      ELSE IF wIdle[r] >= idleTimeout
        THEN /\ wpc' = [wpc EXCEPT ![r] = "done_ok"]
             /\ stopRecv' = [stopRecv EXCEPT ![r] = @ \/ (stopOk /\ child[r] = "alive")]
             /\ wErr' = [wErr EXCEPT ![r] = 0]
             /\ wNext' = [wNext EXCEPT ![r] = 0]
             /\ wSkew' = [wSkew EXCEPT ![r] = 0]
             /\ UNCHANGED <<wSleep, wLockT, wIdle>>
        ELSE /\ wErr' = [wErr EXCEPT ![r] = 0]
             /\ wpc' = [wpc EXCEPT ![r] = "tick"]
             /\ wNext' = [wNext EXCEPT ![r] = next]
             /\ UNCHANGED <<wSleep, wIdle, wLockT, wSkew, stopRecv>>

\* The body of the poll loop from the reply to conn.cmd("list") on.
\* ok tells whether the command succeeded, count is the player count parsed
\* from the response; stopOk tells whether the best-effort conn.cmd("stop")
\* reached the game server.  next is the ticker's countdown after this step.
ListResult(r, ok, count, stopOk, next) ==
  IF ~ok
    THEN IF wErr[r] < MaxRetries
      THEN /\ wErr' = [wErr EXCEPT ![r] = wErr[r] + 1]
           /\ wpc' = [wpc EXCEPT ![r] = "backoff"]
           /\ wSleep' = [wSleep EXCEPT ![r] = RetrySleep]
           /\ wNext' = [wNext EXCEPT ![r] = next]
           /\ UNCHANGED <<wIdle, wLockT, wSkew, stopRecv>>
      ELSE /\ wpc' = [wpc EXCEPT ![r] = "lock_fail"]
           /\ wLockT' = [wLockT EXCEPT ![r] = LockTimeout]
           /\ wNext' = [wNext EXCEPT ![r] = next]
           /\ UNCHANGED <<wErr, wSleep, wIdle, wSkew, stopRecv>>
    ELSE IF count > 0
      THEN /\ wErr' = [wErr EXCEPT ![r] = 0]
           /\ wIdle' = [wIdle EXCEPT ![r] = 0]
           /\ wSkew' = [wSkew EXCEPT ![r] = 0]
           /\ wpc' = [wpc EXCEPT ![r] = "tick"]
           /\ wNext' = [wNext EXCEPT ![r] = next]
           /\ UNCHANGED <<wSleep, wLockT, stopRecv>>
      ELSE IF wIdle[r] >= idleTimeout
        THEN /\ wpc' = [wpc EXCEPT ![r] = "done_ok"]
             /\ stopRecv' = [stopRecv EXCEPT ![r] = @ \/ (stopOk /\ child[r] = "alive")]
             /\ wErr' = [wErr EXCEPT ![r] = 0]
             /\ wNext' = [wNext EXCEPT ![r] = 0]
             /\ wSkew' = [wSkew EXCEPT ![r] = 0]
             /\ UNCHANGED <<wSleep, wLockT, wIdle>>
        ELSE /\ wErr' = [wErr EXCEPT ![r] = 0]
             /\ wpc' = [wpc EXCEPT ![r] = "tick"]
             /\ wNext' = [wNext EXCEPT ![r] = next]
             /\ UNCHANGED <<wSleep, wIdle, wLockT, wSkew, stopRecv>>

\* ticker.tick() completes, conn.cmd("list") is sent and answered.
WdPoll(r, ok, count, stopOk) ==
  /\ proc = "up" /\ wpc[r] = "tick" /\ wNext[r] = 0
  /\ ListResult(r, ok, count, stopOk, pollInterval)
  /\ UNCHANGED <<state, lock, proc, dispVars, launched, child,
                 wElapsed, tpc, tLockT, coordVars, cfgVars>>

\* The 1 s sleep after a failed `list` is over: conn.cmd("list") is sent again
\* without waiting for the ticker.
WdRetryList(r, ok, count, stopOk) ==
  /\ proc = "up" /\ wpc[r] = "backoff" /\ wSleep[r] = 0
  /\ ListResult(r, ok, count, stopOk, wNext[r])
  /\ UNCHANGED <<state, lock, proc, dispVars, launched, child,
                 wElapsed, tpc, tLockT, coordVars, cfgVars>>

\* ------------------------------------------------------------ game server
\* The launched child process ends (stopped, crashed or killed from outside).
ChildExit(r) ==
  /\ child[r] = "alive"
  /\ child' = [child EXCEPT ![r] = "exited"]
  /\ UNCHANGED <<state, lock, proc, dispVars, launched, stopRecv, wdVars,
                 tpc, tLockT, coordVars, cfgVars>>

\* ------------------------------------------------------------ child waiter
\* child.wait() returns (Ok once the child has exited; Err is only logged):
\* rcon_watchdog_handle.abort(), then wait for the lock.
WaiterObserve(r, waitOk) ==
  /\ proc = "up" /\ tpc[r] = "wait"
  /\ IF waitOk THEN child[r] = "exited" ELSE child[r] = "alive"
  /\ tpc' = [tpc EXCEPT ![r] = "lock"]
  /\ tLockT' = [tLockT EXCEPT ![r] = LockTimeout]
  /\ wpc' = [wpc EXCEPT ![r] = IF @ \in WdLivePcs THEN "aborted" ELSE @]
  /\ wErr' = [wErr EXCEPT ![r] = 0]
  /\ wElapsed' = [wElapsed EXCEPT ![r] = 0]
  /\ wIdle' = [wIdle EXCEPT ![r] = 0]
  /\ wNext' = [wNext EXCEPT ![r] = 0]
  /\ wSleep' = [wSleep EXCEPT ![r] = 0]
  /\ wLockT' = [wLockT EXCEPT ![r] = 0]
  /\ wSkew' = [wSkew EXCEPT ![r] = 0]
  /\ UNCHANGED <<state, lock, proc, dispVars, launched, child, stopRecv,
                 coordVars, cfgVars>>

\* A variant of the waiter that finishes without recording Stopped.
WaiterSkipsSwitch(r) ==
  /\ proc = "up" /\ tpc[r] = "lock" /\ lock = "free"
  /\ tpc' = [tpc EXCEPT ![r] = "done"]
  /\ tLockT' = [tLockT EXCEPT ![r] = 0]
  /\ UNCHANGED <<state, lock, proc, dispVars, launched, child, stopRecv,
                 wdVars, coordVars, cfgVars>>

\* The waiter acquires the lock: state.switch_to(Stopped), an Err is logged.
WaiterSetStopped(r) ==
  /\ proc = "up" /\ tpc[r] = "lock" /\ lock = "free"
  /\ state' = switch_to(state, "Stopped").state
  /\ tpc' = [tpc EXCEPT ![r] = "done"]
  /\ tLockT' = [tLockT EXCEPT ![r] = 0]
  /\ UNCHANGED <<lock, proc, dispVars, launched, child, stopRecv, wdVars,
                 coordVars, cfgVars>>

\* timeout(5 s, lock()) expires in the waiter: panic!, which ends the task.
WaiterLockTimeout(r) ==
  /\ proc = "up" /\ tpc[r] = "lock" /\ lock # "free" /\ tLockT[r] = 0
  /\ tpc' = [tpc EXCEPT ![r] = "panicked"]
  /\ UNCHANGED <<state, lock, proc, dispVars, launched, child, stopRecv,
                 wdVars, tLockT, coordVars, cfgVars>>

\* ------------------------------------------------------------ main: Ctrl+C
\* A variant of the coordinator that sends stop whatever the state is.
CoordSignalAlwaysStops ==
  /\ proc = "up" /\ cpc = "idle"
  /\ dpc' = "cancelled"
  /\ lock' = "free"
  /\ state' = IF state = "Running" THEN "Stopped" ELSE state
  /\ cpc' = "stopcmd"
  /\ UNCHANGED <<branch, proc, served, launched, child, stopRecv, wdVars, tpc,
                 tLockT, cTimer, cfgVars>>

\* ctrl_c() completes: select! drops the main_loop future (and with it the
\* guard main_loop may hold), the lock is taken; in state Running
\* switch_to(Stopped), the guard is dropped and send_stop_command starts;
\* in any other state main returns.
CoordSignal ==
  /\ proc = "up" /\ cpc = "idle"
  /\ dpc' = "cancelled"
  /\ UNCHANGED branch
  /\ lock' = "free"
  /\ IF state = "Running"
       THEN /\ state' = switch_to(state, "Stopped").state
            /\ cpc' = "stopcmd"
            /\ UNCHANGED proc
       ELSE /\ cpc' = "done"
            /\ proc' = "exited"
            /\ UNCHANGED state
  /\ UNCHANGED <<served, launched, child, stopRecv, wdVars, tpc, tLockT,
                 cTimer, cfgVars>>

\* send_stop_command returns.  Ok: `stop` reached the game server of the
\* latest launch, sleep 10 s.  Err: logged, main returns.
CoordStopCmd(ok) ==
  /\ proc = "up" /\ cpc = "stopcmd"
  /\ IF ok
       THEN /\ cpc' = "sleep"
            /\ cTimer' = StopGrace
            /\ stopRecv' = [r \in Runs |->
                   stopRecv[r] \/ (r = launched /\ child[r] = "alive")]
            /\ UNCHANGED proc
       ELSE /\ cpc' = "done"
            /\ proc' = "exited"
            /\ UNCHANGED <<cTimer, stopRecv>>
  /\ UNCHANGED <<state, lock, dispVars, launched, child, wdVars, tpc, tLockT,
                 cfgVars>>

\* The 10 s sleep is over: main returns.
CoordSleepDone ==
  /\ proc = "up" /\ cpc = "sleep" /\ cTimer = 0
  /\ cpc' = "done"
  /\ proc' = "exited"
  /\ UNCHANGED <<state, lock, dispVars, launched, child, stopRecv, wdVars,
                 tpc, tLockT, cTimer, cfgVars>>

\* ------------------------------------------------------------ time
\* d seconds pass: ages grow (saturating), countdowns shrink (to 0).
Advance(d) ==
  /\ wElapsed' = [r \in Runs |-> IF wpc[r] \in WdConnectPcs
                     THEN Min(wElapsed[r] + d, ConnectLimit + 1) ELSE wElapsed[r]]
  /\ wIdle' = [r \in Runs |-> IF wpc[r] \in WdPollPcs
                     THEN Min(wIdle[r] + d, IdleCap) ELSE wIdle[r]]
  /\ wNext' = [r \in Runs |-> IF wpc[r] \in WdPollPcs
                     THEN Dec(wNext[r], d) ELSE wNext[r]]
  /\ wSleep' = [r \in Runs |-> IF wpc[r] \in {"retry", "backoff"}
                     THEN Dec(wSleep[r], d) ELSE wSleep[r]]
  /\ wLockT' = [r \in Runs |-> IF wpc[r] \in WdLockPcs
                     THEN Dec(wLockT[r], d) ELSE wLockT[r]]
  /\ tLockT' = [r \in Runs |-> IF tpc[r] = "lock"
                     THEN Dec(tLockT[r], d) ELSE tLockT[r]]
  /\ cTimer' = IF cpc = "sleep" THEN Dec(cTimer, d) ELSE cTimer
  /\ UNCHANGED <<state, lock, proc, dispVars, launched, child, stopRecv,
                 wpc, wErr, wSkew, tpc, cpc, restVars, ppc>>

\* A task that runs without waiting, or whose deadline has been reached.
Urgent ==
  \/ \E r \in Runs : wpc[r] = "connect"
  \/ \E r \in Runs : wpc[r] \in {"retry", "backoff"} /\ wSleep[r] = 0
  \/ \E r \in Runs : wpc[r] = "tick" /\ wNext[r] = 0
  \/ \E r \in Runs : wpc[r] \in WdLockPcs /\ (lock = "free" \/ wLockT[r] = 0)
  \/ \E r \in Runs : tpc[r] = "lock" /\ (lock = "free" \/ tLockT[r] = 0)
  \/ \E r \in Runs : tpc[r] = "wait" /\ child[r] = "exited"
  \/ cpc = "stopcmd"
  \/ cpc = "sleep" /\ cTimer = 0

\* One second passes; no task is overdue.
Tick ==
  /\ proc = "up" /\ ~Urgent
  /\ Advance(1)
  /\ UNCHANGED holdVars

\* A time longer than every deadline passes.
Horizon == ConnectLimit + 1
Pass ==
  /\ proc = "up"
  /\ Advance(Horizon)
  /\ UNCHANGED holdVars

\* ------------------------------------------------------------ specifications
\* Player counts a `list` reply may carry.
Counts == {0, 1}

DispNext ==
  \/ DispAcceptErr
  \/ DispCooldownDone
  \/ DispNodelayFail
  \/ DispAccept
  \/ DispProxy
  \/ \E o \in {"status", "ignore", "fail"} : DispIgnore(o)
  \/ DispLogin
  \/ \E d \in BOOLEAN : DispStart(d)
  \/ \E d \in BOOLEAN : DispStartFail(d)
  \/ \E d \in BOOLEAN : DispNotify(d)

WdNext(r) ==
  \/ \E ok \in BOOLEAN : WdConnect(r, ok)
  \/ WdRetryWake(r)
  \/ WdSetRunning(r)
  \/ WdSetStopped(r)
  \/ WdLockTimeout(r)
  \/ \E ok \in BOOLEAN, n \in Counts, s \in BOOLEAN : WdPoll(r, ok, n, s)
  \/ \E ok \in BOOLEAN, n \in Counts, s \in BOOLEAN : WdRetryList(r, ok, n, s)

WaiterNext(r) ==
  \/ \E ok \in BOOLEAN : WaiterObserve(r, ok)
  \/ WaiterSetStopped(r)
  \/ WaiterLockTimeout(r)

CoordNext ==
  \/ CoordSignal
  \/ \E ok \in BOOLEAN : CoordStopCmd(ok)
  \/ CoordSleepDone

\* The whole supervisor; only the order of events matters.
Next ==
  \/ DispNext
  \/ \E r \in Runs : WdNext(r)
  \/ \E r \in Runs : WaiterNext(r)
  \/ \E r \in Runs : ChildExit(r)
  \/ CoordNext
  \/ Pass

Spec == Init /\ [][Next]_vars

\* The first watchdog in real time, with probing clients that make main_loop
\* hold the lock; the child stays up and no interrupt arrives.
NextWatchdog ==
  \/ WdNext(1)
  \/ DispAccept
  \/ \E o \in {"status", "ignore", "fail"} : DispIgnore(o)
  \/ Tick

SpecWatchdog == InitWatchdog /\ [][NextWatchdog]_vars

\* The first watchdog in real time with a runtime that polls ready tasks and
\* a clock that advances.
WatchdogFairness ==
  /\ WF_vars(Tick)
  /\ WF_vars(\E ok \in BOOLEAN : WdConnect(1, ok))
  /\ WF_vars(WdRetryWake(1))

SpecWatchdogFair == SpecWatchdog /\ WatchdogFairness

\* The state right after main_loop has launched again although the child of
\* an earlier launch (run 0) still runs: the watchdog of run 0 gave up
\* connecting and wrote Stopped, its waiter still waits, and a login has
\* started run 1.
InitRelaunch ==
  /\ state = "Starting"
  /\ lock = "free"
  /\ proc = "up"
  /\ dpc = "accept"
  /\ branch = "Stopped"
  /\ served \in {"refusal", "dropped"}
  /\ launched = 1
  /\ child = [r \in Runs |-> IF r <= 1 THEN "alive" ELSE "none"]
  /\ stopRecv = [r \in Runs |-> FALSE]
  /\ wpc = [r \in Runs |-> CASE r = 0 -> "done_err" [] r = 1 -> "connect"
                             [] OTHER -> "none"]
  /\ wErr = [r \in Runs |-> 0]
  /\ wElapsed = [r \in Runs |-> 0]
  /\ wIdle = [r \in Runs |-> 0]
  /\ wNext = [r \in Runs |-> 0]
  /\ wSleep = [r \in Runs |-> 0]
  /\ wLockT = [r \in Runs |-> 0]
  /\ wSkew = [r \in Runs |-> 0]
  /\ tpc = [r \in Runs |-> IF r <= 1 THEN "wait" ELSE "none"]
  /\ tLockT = [r \in Runs |-> 0]
  /\ cpc = "idle"
  /\ cTimer = 0
  /\ calls = <<>>
  /\ ppc = "none"
  /\ dHeld = 0 /\ dOp = 0
  /\ CodecIdle
  /\ pollInterval = 1
  /\ idleTimeout \in {0, MaxIdle}

\* The launch phase of every run: the dispatcher, the connect phase of the
\* watchdogs up to their first write of the state, the waiters, the children;
\* no polling and no interrupt.
NextRelaunch ==
  \/ DispNext
  \/ \E r \in Runs :
       \/ \E ok \in BOOLEAN : WdConnect(r, ok)
       \/ WdRetryWake(r)
       \/ WdSetRunning(r)
       \/ WdSetStopped(r)
       \/ WdLockTimeout(r)
  \/ \E r \in Runs : WaiterNext(r)
  \/ \E r \in Runs : ChildExit(r)
  \/ Pass

SpecRelaunch == InitRelaunch /\ [][NextRelaunch]_vars

\* The state right after the watchdog of the first launch has connected and
\* written Running: main_loop proxies from now on.
InitProxy ==
  /\ state = "Running"
  /\ lock = "free"
  /\ proc = "up"
  /\ dpc = "accept"
  /\ branch = "Stopped"
  /\ served \in {"refusal", "dropped"}
  /\ launched = 1
  /\ child = [r \in Runs |-> IF r = 1 THEN "alive" ELSE "none"]
  /\ stopRecv = [r \in Runs |-> FALSE]
  /\ wpc = [r \in Runs |-> IF r = 1 THEN "tick" ELSE "none"]
  /\ wErr = [r \in Runs |-> 0]
  /\ wElapsed = [r \in Runs |-> 0]
  /\ wIdle = [r \in Runs |-> 0]
  /\ wNext = [r \in Runs |-> 0]
  /\ wSleep = [r \in Runs |-> 0]
  /\ wLockT = [r \in Runs |-> 0]
  /\ wSkew = [r \in Runs |-> 0]
  /\ tpc = [r \in Runs |-> IF r = 1 THEN "wait" ELSE "none"]
  /\ tLockT = [r \in Runs |-> 0]
  /\ cpc = "idle"
  /\ cTimer = 0
  /\ calls = <<>>
  /\ ppc = "none"
  /\ dHeld = 0 /\ dOp = 0
  /\ CodecIdle
  /\ pollInterval = 1
  /\ idleTimeout = MaxIdle

\* The supervisor with the tasks of the first launch and the proxy task it
\* spawned last.
NextProxy ==
  \/ DispNext
  \/ \E ok \in BOOLEAN, n \in Counts, s \in BOOLEAN : WdPoll(1, ok, n, s)
  \/ \E ok \in BOOLEAN, n \in Counts, s \in BOOLEAN : WdRetryList(1, ok, n, s)
  \/ WdSetStopped(1)
  \/ WaiterNext(1)
  \/ ChildExit(1)
  \/ CoordNext
  \/ Pass
  \/ \E ok \in BOOLEAN : ProxyDial(ok)
  \/ ProxySpliceEnd

SpecProxy == InitProxy /\ [][NextProxy]_vars

\* ------------------------------------------------------------ timed dispatcher
\* main_loop's Stopped and Starting arms await by await; dpc is the await
\* main_loop is suspended in: "read" (verify_handshake_packet's first read),
\* "drain", "write", "shutdown" (handle_status_ping), "refuse_write",
\* "linger", "refuse_shutdown" (send_starting_message).
Deadlined == {"read", "drain", "write", "refuse_write", "linger"}
Undeadlined == {"shutdown", "refuse_shutdown"}

\* The deadline of a timed await; the 50 ms sleep ends within the second.
OpLimit(op) ==
  CASE op = "read" -> ReadLimit
    [] op = "drain" -> DrainLimit
    [] op \in {"write", "refuse_write"} -> WriteLimit
    [] OTHER -> 0

\* accept succeeds and the guard is taken in state Stopped or Starting.
TimedAccept ==
  /\ proc = "up" /\ dpc = "accept" /\ lock = "free"
  /\ state \in {"Stopped", "Starting"}
  /\ state = "Stopped" => launched < MaxLaunch
  /\ dpc' = "read"
  /\ branch' = state
  /\ lock' = "disp"
  /\ served' = "none"
  /\ dHeld' = 0 /\ dOp' = 0
  /\ UNCHANGED <<state, proc, launched, child, stopRecv,
                 wdVars, tpc, tLockT, coordVars, restVars, ppc>>

\* The first read returns or its deadline expires, and the bytes are parsed:
\* a login, a status probe, anything else, or an I/O error.
TimedRead(outcome) ==
  /\ proc = "up" /\ dpc = "read"
  /\ IF outcome \in {"login", "status"}
       THEN /\ dpc' = IF outcome = "login" THEN "refuse_write" ELSE "drain"
            /\ dOp' = 0
            /\ UNCHANGED <<lock, served, dHeld>>
       ELSE /\ dpc' = "accept"
            /\ lock' = "free"
            /\ served' = "dropped"
            /\ dHeld' = 0 /\ dOp' = 0
  /\ UNCHANGED <<state, proc, branch, launched, child, stopRecv,
                 wdVars, tpc, tLockT, coordVars, restVars, ppc>>

\* handle_status_ping: the drain read returns or times out.
TimedDrain ==
  /\ proc = "up" /\ dpc = "drain"
  /\ dpc' = "write"
  /\ dOp' = 0
  /\ UNCHANGED <<state, lock, proc, branch, served, launched, child, stopRecv,
                 wdVars, tpc, tLockT, coordVars, restVars, ppc, dHeld>>

\* handle_status_ping: write_all returns or times out.
TimedWrite(ok) ==
  /\ proc = "up" /\ dpc = "write"
  /\ dpc' = "shutdown"
  /\ served' = IF ok THEN "motd" ELSE "dropped"
  /\ dOp' = 0
  /\ UNCHANGED <<state, lock, proc, branch, launched, child, stopRecv,
                 wdVars, tpc, tLockT, coordVars, restVars, ppc, dHeld>>

\* handle_status_ping: socket.shutdown() returns; the arm yields false and
\* the guard is dropped.
TimedShutdown ==
  /\ proc = "up" /\ dpc = "shutdown"
  /\ dpc' = "accept"
  /\ lock' = "free"
  /\ dHeld' = 0 /\ dOp' = 0
  /\ UNCHANGED <<state, proc, branch, served, launched, child, stopRecv,
                 wdVars, tpc, tLockT, coordVars, restVars, ppc>>

\* send_starting_message: write_all returns or times out.
TimedRefuseWrite ==
  /\ proc = "up" /\ dpc = "refuse_write"
  /\ dpc' = "linger"
  /\ dOp' = 0
  /\ UNCHANGED <<state, lock, proc, branch, served, launched, child, stopRecv,
                 wdVars, tpc, tLockT, coordVars, restVars, ppc, dHeld>>

\* send_starting_message: the 50 ms sleep is over.
TimedLinger ==
  /\ proc = "up" /\ dpc = "linger"
  /\ dpc' = "refuse_shutdown"
  /\ dOp' = 0
  /\ UNCHANGED <<state, lock, proc, branch, served, launched, child, stopRecv,
                 wdVars, tpc, tLockT, coordVars, restVars, ppc, dHeld>>

\* send_starting_message: socket.shutdown() returns; the arm goes on with
\* the guard still held.
TimedRefuseShutdown ==
  /\ proc = "up" /\ dpc = "refuse_shutdown"
  /\ dpc' = "refuse"
  /\ dOp' = 0
  /\ UNCHANGED <<state, lock, proc, branch, served, launched, child, stopRecv,
                 wdVars, tpc, tLockT, coordVars, restVars, ppc, dHeld>>

\* A variant in which only the first read has a deadline.
DispDueReadOnly ==
  /\ lock = "disp"
  /\ \/ dpc \in Undeadlined \cup {"refuse"}
     \/ dpc = "read" /\ dOp >= ReadLimit

\* main_loop runs without waiting, or the deadline of its await is reached.
\* TcpStream's shutdown completes without suspending.
DispDue ==
  /\ lock = "disp"
  /\ \/ dpc \in Undeadlined \cup {"refuse"}
     \/ dpc \in Deadlined /\ dOp >= OpLimit(dpc)

\* One second passes for main_loop too.
TickHold ==
  /\ proc = "up" /\ ~Urgent /\ ~DispDue
  /\ Advance(1)
  /\ dHeld' = IF lock = "disp" THEN dHeld + 1 ELSE dHeld
  /\ dOp' = IF lock = "disp" THEN dOp + 1 ELSE dOp

\* main_loop in real time from the start of the program, with watchdogs
\* whose RCON connect succeeds; the children stay up, no interrupt arrives.
NextHold ==
  \/ TimedAccept
  \/ \E o \in {"login", "status", "ignore", "fail"} : TimedRead(o)
  \/ TimedDrain
  \/ \E ok \in BOOLEAN : TimedWrite(ok)
  \/ TimedShutdown
  \/ TimedRefuseWrite
  \/ TimedLinger
  \/ TimedRefuseShutdown
  \/ \E d \in BOOLEAN : DispStart(d)
  \/ \E d \in BOOLEAN : DispStartFail(d)
  \/ \E d \in BOOLEAN : DispNotify(d)
  \/ DispProxy
  \/ \E r \in Runs : WdConnect(r, TRUE) \/ WdSetRunning(r) \/ WdLockTimeout(r)
  \/ TickHold

SpecHold == Init /\ [][NextHold]_vars

\* ------------------------------------------------------------ idle cycle
\* The child exits because it was told to stop.
ChildExitStopped(r) ==
  /\ stopRecv[r]
  /\ ChildExit(r)

\* The supervisor in the run the idle-shutdown scenario describes: every
\* `list` and `stop` command succeeds and reports no player, the child runs
\* until it is stopped, main_loop meets no listener or launch error, no task
\* waits 5 s for the lock and no interrupt arrives.
LiveNext ==
  \/ DispAccept
  \/ DispProxy
  \/ \E o \in {"status", "ignore", "fail"} : DispIgnore(o)
  \/ DispLogin
  \/ \E d \in BOOLEAN : DispStart(d)
  \/ \E d \in BOOLEAN : DispNotify(d)
  \/ \E r \in Runs :
       \/ \E ok \in BOOLEAN : WdConnect(r, ok)
       \/ WdRetryWake(r)
       \/ WdSetRunning(r)
       \/ WdSetStopped(r)
       \/ WdPoll(r, TRUE, 0, TRUE)
       \/ ChildExitStopped(r)
       \/ WaiterObserve(r, TRUE)
       \/ WaiterSetStopped(r)
  \/ Pass

\* main_loop finishes the iteration it has begun: every read and write it
\* awaits under the guard has a deadline.
DispFinish ==
  \/ \E o \in {"status", "ignore", "fail"} : DispIgnore(o)
  \/ DispLogin
  \/ \E d \in BOOLEAN : DispStart(d)
  \/ \E d \in BOOLEAN : DispNotify(d)

\* The runtime polls every ready task, timers fire, and tokio's Mutex hands
\* the lock to its waiters in FIFO order (strong fairness for the steps that
\* need the lock).  Accepting a connection is left to the clients.
LiveFairness ==
  /\ WF_vars(DispFinish)
  /\ WF_vars(Pass)
  /\ \A r \in Runs :
       /\ WF_vars(\E ok \in BOOLEAN : WdConnect(r, ok))
       /\ WF_vars(WdRetryWake(r))
       /\ SF_vars(WdSetRunning(r))
       /\ SF_vars(WdSetStopped(r))
       /\ WF_vars(WdPoll(r, TRUE, 0, TRUE))
       /\ WF_vars(ChildExitStopped(r))
       /\ WF_vars(WaiterObserve(r, TRUE))
       /\ SF_vars(WaiterSetStopped(r))

LiveSpec == Init /\ [][LiveNext]_vars /\ LiveFairness

\* ------------------------------------------------------------ transition harness
\* A caller that assigns the requested variant whatever switch_to answers.
SwitchCallForced(new) ==
  /\ Len(calls) < MaxCalls
  /\ calls' = Append(calls, [from |-> state, to |-> new,
                             ok |-> switch_to(state, new).ok])
  /\ state' = new
  /\ UNCHANGED <<lock, proc, dispVars, launched, child, stopRecv, wdVars,
                 tpc, tLockT, coordVars, pollInterval, idleTimeout,
                 codecVars, ppc, holdVars>>

\* A caller of switch_to: match state.switch_to(new) { Ok(_) => (),
\* Err(e) => log::error!(..) }, for any requested variant.
SwitchCall(new) ==
  /\ Len(calls) < MaxCalls
  /\ LET res == switch_to(state, new) IN
       /\ calls' = Append(calls, [from |-> state, to |-> new, ok |-> res.ok])
       /\ state' = res.state
  /\ UNCHANGED <<lock, proc, dispVars, launched, child, stopRecv, wdVars,
                 tpc, tLockT, coordVars, pollInterval, idleTimeout,
                 codecVars, ppc, holdVars>>

InitSwitch ==
  /\ InitTasks
  /\ CodecIdle
  /\ pollInterval = 1
  /\ idleTimeout = 0

NextSwitch == \E new \in ServerState : SwitchCall(new)

SpecSwitch == InitSwitch /\ [][NextSwitch]_vars

\* ------------------------------------------------------------ varints
\* i32 values are Integers in MinI32..MaxI32; a byte is in 0..255.
MinI32 == -2147483647 - 1
MaxI32 == 2147483647

None == [ok |-> FALSE, value |-> 0, len |-> 0]
Some(v, n) == [ok |-> TRUE, value |-> v, len |-> n]

\* (val as i32) << (7 * k) for val in 0..127 and k in 0..4: the bits shifted
\* past bit 31 are lost and bit 31 is the sign.
Shl7(val, k) ==
  IF k < 4
    THEN val * 128^k
    ELSE (val % 8) * 268435456 + (IF val % 16 >= 8 THEN MinI32 ELSE 0)

\* A variant of the read loop that gives up after 4 bytes.
RECURSIVE ReadLoopFour(_, _, _)
ReadLoopFour(buf, numRead, result) ==
  IF numRead >= Len(buf)
    THEN None
    ELSE LET byte == buf[numRead + 1]
             acc  == result + Shl7(byte % 128, numRead)
         IN  IF byte < 128 THEN Some(acc, numRead + 1)
             ELSE IF numRead + 1 >= 4 THEN None
             ELSE ReadLoopFour(buf, numRead + 1, acc)

\* A variant of the read loop that tests num_read > 5 instead of >= 5.
RECURSIVE ReadLoopSix(_, _, _)
ReadLoopSix(buf, numRead, result) ==
  IF numRead >= Len(buf)
    THEN None
    ELSE LET byte == buf[numRead + 1]
             acc  == result + Shl7(byte % 128, numRead)
         IN  IF byte < 128 THEN Some(acc, numRead + 1)
             ELSE IF numRead + 1 > 5 THEN None
             ELSE ReadLoopSix(buf, numRead + 1, acc)

\* The for loop of read_varint, entered with num_read bytes consumed.  The
\* groups OR-ed into result occupy disjoint bits, so | is +.
RECURSIVE ReadLoop(_, _, _)
ReadLoop(buf, numRead, result) ==
  IF numRead >= Len(buf)
    THEN None
    ELSE LET byte == buf[numRead + 1]
             acc  == result + Shl7(byte % 128, numRead)
         IN  IF byte < 128 THEN Some(acc, numRead + 1)
             ELSE IF numRead + 1 >= 5 THEN None
             ELSE ReadLoop(buf, numRead + 1, acc)

read_varint(buf) == ReadLoop(buf, 0, 0)

\* One iteration of the loop of write_varint.  (val & !0x7F) == 0 holds
\* exactly for 0..127; >>= on an i32 is the arithmetic shift.
WriteStep ==
  /\ vpc = "write" /\ Len(vbuf) < MaxBytes
  /\ IF 0 <= vval /\ vval < 128
       THEN /\ vbuf' = Append(vbuf, vval)
            /\ vpc' = "written"
            /\ UNCHANGED vval
       ELSE /\ vbuf' = Append(vbuf, (vval % 128) + 128)
            /\ vval' = vval \div 128
            /\ UNCHANGED vpc
  /\ UNCHANGED <<state, lock, proc, dispVars, launched, child, stopRecv,
                 wdVars, tpc, tLockT, coordVars, pollInterval, idleTimeout,
                 ppc, holdVars, calls, vin, vres, hsVars>>

\* read_varint on the bytes write_varint produced.
ReadBack ==
  /\ vpc = "written"
  /\ vres' = read_varint(vbuf)
  /\ vpc' = "read"
  /\ UNCHANGED <<state, lock, proc, dispVars, launched, child, stopRecv,
                 wdVars, tpc, tLockT, coordVars, pollInterval, idleTimeout,
                 ppc, holdVars, calls, vin, vval, vbuf, hsVars>>

\* The i32 whose 7-bit groups are a, b, c, d and whose top 4 bits are t
\* (t in -8..-1 for the values with the sign bit set).
Compose(a, b, c, d, t) == a + 128 * b + 16384 * c + 2097152 * d + 268435456 * t
Groups == {0, 1, 64, 127}
VarintInputs ==
  {Compose(a, b, c, d, t) : a, b, c, d \in Groups, t \in {0, 1, 7, -8, -1}}

InitVarint ==
  /\ InitTasks
  /\ pollInterval = 1 /\ idleTimeout = 0
  /\ vpc = "write"
  /\ vin \in VarintInputs
  /\ vval = vin
  /\ vbuf = <<>>
  /\ vres = None
  /\ HsIdle

NextVarint == WriteStep \/ ReadBack

SpecVarint == InitVarint /\ [][NextVarint]_vars

\* read_varint on a given buffer.
ReadBuffer ==
  /\ vpc = "given"
  /\ vres' = read_varint(vbuf)
  /\ vpc' = "parsed"
  /\ UNCHANGED <<state, lock, proc, dispVars, launched, child, stopRecv,
                 wdVars, tpc, tLockT, coordVars, pollInterval, idleTimeout,
                 ppc, holdVars, calls, vin, vval, vbuf, hsVars>>

\* Byte values tried: with and without the continuation bit.
SampleBytes == {0, 127, 128, 255}
RECURSIVE BuffersOfLen(_)
BuffersOfLen(n) ==
  IF n = 0 THEN {<<>>}
  ELSE {Append(b, x) : b \in BuffersOfLen(n - 1), x \in SampleBytes}
Buffers == UNION {BuffersOfLen(n) : n \in 0..MaxLen}

InitRead ==
  /\ InitTasks
  /\ pollInterval = 1 /\ idleTimeout = 0
  /\ vpc = "given"
  /\ vin = 0 /\ vval = 0
  /\ vbuf \in Buffers
  /\ vres = None
  /\ HsIdle

SpecRead == InitRead /\ [][ReadBuffer]_vars

\* ------------------------------------------------------------ handshake
\* &buf[from..n]: the bytes from offset `from` on (from <= n).
Slice(buf, from) == SubSeq(buf, from + 1, Len(buf))

\* A variant of the parser that forgets to skip the port.
ParseHandshakeKeepsPort(buf) ==
  LET n  == Len(buf)
      r1 == read_varint(buf)
  IN
  IF ~r1.ok THEN "false" ELSE
  LET off1 == r1.len
      r2   == read_varint(Slice(buf, off1))
  IN
  IF ~r2.ok THEN "false" ELSE
  IF r2.value # 0 THEN "false" ELSE
  LET offsetA == off1 + r2.len
      r3      == read_varint(Slice(buf, offsetA))
  IN
  IF ~r3.ok THEN "false" ELSE
  LET offsetB == offsetA + r3.len
      r4      == read_varint(Slice(buf, offsetB))
  IN
  IF ~r4.ok THEN "false" ELSE
  IF r4.value < 0 THEN "false" ELSE
  LET offsetC == offsetB + r4.len + r4.value
  IN
  IF offsetC >= n THEN "false" ELSE
  LET r5 == read_varint(Slice(buf, offsetC))
  IN
  IF ~r5.ok THEN "false"
  ELSE IF r5.value = 1 THEN "status"
  ELSE IF r5.value = 2 THEN "true"
  ELSE "false"

\* The parse of verify_handshake_packet on the n received bytes: "true" for
\* Ok(true), "false" for Ok(false), "status" where handle_status_ping is
\* called.  Every slice starts at an offset <= n: a varint's count is at most
\* the length of the slice it was read from, and the last offset is tested.
ParseHandshake(buf) ==
  LET n  == Len(buf)
      r1 == read_varint(buf)
  IN
  IF ~r1.ok THEN "false" ELSE
  LET off1 == r1.len
      r2   == read_varint(Slice(buf, off1))
  IN
  IF ~r2.ok THEN "false" ELSE
  IF r2.value # 0 THEN "false" ELSE
  LET offsetA == off1 + r2.len
      r3      == read_varint(Slice(buf, offsetA))
  IN
  IF ~r3.ok THEN "false" ELSE
  LET offsetB == offsetA + r3.len
      r4      == read_varint(Slice(buf, offsetB))
  IN
  IF ~r4.ok THEN "false" ELSE
  IF r4.value < 0 THEN "false" ELSE
  LET offsetC == offsetB + r4.len + r4.value + 2
  IN
  IF offsetC >= n THEN "false" ELSE
  LET r5 == read_varint(Slice(buf, offsetC))
  IN
  IF ~r5.ok THEN "false"
  ELSE IF r5.value = 1 THEN "status"
  ELSE IF r5.value = 2 THEN "true"
  ELSE "false"

\* A variant of the slicing that does not test the last offset against n.
SliceStartsUntested(buf) ==
  LET n  == Len(buf)
      r1 == read_varint(buf)
  IN
  IF ~r1.ok THEN <<0>> ELSE
  LET off1 == r1.len
      r2   == read_varint(Slice(buf, off1))
  IN
  IF ~r2.ok \/ r2.value # 0 THEN <<0, off1>> ELSE
  LET offsetA == off1 + r2.len
      r3      == read_varint(Slice(buf, offsetA))
  IN
  IF ~r3.ok THEN <<0, off1, offsetA>> ELSE
  LET offsetB == offsetA + r3.len
      r4      == read_varint(Slice(buf, offsetB))
  IN
  IF ~r4.ok \/ r4.value < 0 THEN <<0, off1, offsetA, offsetB>> ELSE
  LET offsetC == offsetB + r4.len + r4.value + 2
  IN  <<0, off1, offsetA, offsetB, offsetC>>

\* The start offsets of the slices &buf[..n], &buf[off1..n], &buf[offset..n]
\* verify_handshake_packet takes of the n received bytes, in order, up to
\* its return.
SliceStarts(buf) ==
  LET n  == Len(buf)
      r1 == read_varint(buf)
  IN
  IF ~r1.ok THEN <<0>> ELSE
  LET off1 == r1.len
      r2   == read_varint(Slice(buf, off1))
  IN
  IF ~r2.ok \/ r2.value # 0 THEN <<0, off1>> ELSE
  LET offsetA == off1 + r2.len
      r3      == read_varint(Slice(buf, offsetA))
  IN
  IF ~r3.ok THEN <<0, off1, offsetA>> ELSE
  LET offsetB == offsetA + r3.len
      r4      == read_varint(Slice(buf, offsetB))
  IN
  IF ~r4.ok \/ r4.value < 0 THEN <<0, off1, offsetA, offsetB>> ELSE
  LET offsetC == offsetB + r4.len + r4.value + 2
  IN
  IF offsetC >= n THEN <<0, off1, offsetA, offsetB>>
  ELSE <<0, off1, offsetA, offsetB, offsetC>>

\* &buf[from..n] panics when from > n.
Panics(buf) ==
  LET starts == SliceStarts(buf)
  IN  \E i \in 1..Len(starts) : starts[i] > Len(buf)

\* A variant of the first read that hands a connection reset on as an error.
VerifyHandshakeResetFails ==
  /\ vpc = "accepted"
  /\ IF peer.read \in {"error", "reset"}
       THEN vpc' = "returned" /\ hres' = "fail"
       ELSE IF peer.read # "data" \/ Len(vbuf) = 0
         THEN vpc' = "returned" /\ hres' = "not_login"
         ELSE IF Panics(vbuf)
           THEN vpc' = "panicked" /\ UNCHANGED hres
           ELSE LET p == ParseHandshake(vbuf)
                IN  IF p = "status"
                      THEN vpc' = "status_ping" /\ UNCHANGED hres
                      ELSE /\ vpc' = "returned"
                           /\ hres' = IF p = "true" THEN "login"
                                                    ELSE "not_login"
  /\ UNCHANGED <<state, lock, proc, dispVars, launched, child, stopRecv,
                 wdVars, tpc, tLockT, coordVars, pollInterval, idleTimeout,
                 ppc, holdVars, calls, vin, vval, vbuf, vres, hs, peer, hout>>

\* verify_handshake_packet up to its return or its call of
\* handle_status_ping: the first read, then the parse.
VerifyHandshake ==
  /\ vpc = "accepted"
  /\ IF peer.read = "error"
       THEN vpc' = "returned" /\ hres' = "fail"
       ELSE IF peer.read # "data" \/ Len(vbuf) = 0
         THEN vpc' = "returned" /\ hres' = "not_login"
         ELSE IF Panics(vbuf)
           THEN vpc' = "panicked" /\ UNCHANGED hres
           ELSE LET p == ParseHandshake(vbuf)
                IN  IF p = "status"
                      THEN vpc' = "status_ping" /\ UNCHANGED hres
                      ELSE /\ vpc' = "returned"
                           /\ hres' = IF p = "true" THEN "login"
                                                    ELSE "not_login"
  /\ UNCHANGED <<state, lock, proc, dispVars, launched, child, stopRecv,
                 wdVars, tpc, tLockT, coordVars, pollInterval, idleTimeout,
                 ppc, holdVars, calls, vin, vval, vbuf, vres, hs, peer, hout>>

\* handle_status_ping: the drain (its outcome is ignored), the write of the
\* listing packet (a failure is logged only), the shutdown (a failure is
\* returned and `?` hands it on).
HandleStatusPing ==
  /\ vpc = "status_ping"
  /\ hout' = IF peer.write = "ok" THEN "status" ELSE "nothing"
  /\ hres' = IF peer.shutdown = "ok" THEN "not_login" ELSE "fail"
  /\ vpc' = "returned"
  /\ UNCHANGED <<state, lock, proc, dispVars, launched, child, stopRecv,
                 wdVars, tpc, tLockT, coordVars, pollInterval, idleTimeout,
                 ppc, holdVars, calls, vin, vval, vbuf, vres, hs, peer>>

\* The bytes a client's varint encoder emits for a value >= 0.
RECURSIVE EncodeVarint(_)
EncodeVarint(v) ==
  IF v < 128 THEN <<v>> ELSE <<(v % 128) + 128>> \o EncodeVarint(v \div 128)

\* The varint of -1.
MinusOne == <<255, 255, 255, 255, 15>>

\* An address of k bytes ('l'), the port 25565, a status request packet.
RECURSIVE AddressBytes(_)
AddressBytes(k) == IF k = 0 THEN <<>> ELSE <<108>> \o AddressBytes(k - 1)
PortBytes == <<99, 221>>
StatusRequest == <<1, 0>>

\* The handshake packet with the fields h, followed by h.tail bytes of a
\* status request, with the last h.cut bytes not (yet) received.
Wire(h) ==
  LET body == EncodeVarint(h.id) \o EncodeVarint(h.proto)
              \o (IF h.alen < 0 THEN MinusOne ELSE EncodeVarint(h.alen))
              \o AddressBytes(h.addr) \o PortBytes \o EncodeVarint(h.ns)
      all  == EncodeVarint(Len(body)) \o body \o SubSeq(StatusRequest, 1, h.tail)
  IN  SubSeq(all, 1, Len(all) - h.cut)

NextStates == {0, 1, 2, 3, 129, 130}
Handshakes ==
  {h \in [id : {0, 1}, proto : {47, 766}, addr : 0..MaxAddr,
          alen : -1..(MaxAddr + 1), ns : NextStates, tail : {0, 2},
          cut : 0..3] :
     /\ h.alen \in {-1, h.addr, h.addr + 1}
     /\ h.cut > 0 => h.tail = 0}
Peers ==
  [read : {"data", "closed", "reset", "error", "timeout"},
   drain : {"data", "timeout"}, write : {"ok", "error", "timeout"},
   shutdown : {"ok", "error"}]

\* The match of the Stopped arm on verify_handshake_packet's result:
\* Ok(true) goes on to send_starting_message; Ok(false) and Err(_) yield
\* false, the guard is dropped and the loop goes back to accept.
DispMatch ==
  /\ proc = "up" /\ dpc = "inspect" /\ vpc = "returned"
  /\ vpc' = "matched"
  /\ IF hres = "login"
       THEN /\ dpc' = "refuse"
            /\ UNCHANGED <<lock, served>>
       ELSE /\ dpc' = "accept"
            /\ lock' = "free"
            /\ served' = IF hout = "status" THEN "motd" ELSE "dropped"
  /\ UNCHANGED <<state, proc, branch, launched, child, stopRecv,
                 wdVars, tpc, tLockT, coordVars, pollInterval, idleTimeout,
                 ppc, holdVars, calls, vin, vval, vbuf, vres, hsVars>>

\* main_loop has accepted the first connection in state Stopped and holds
\* the guard; the client's bytes are what the first read returns when it
\* returns data.
InitInspect ==
  /\ state = "Stopped"
  /\ lock = "disp"
  /\ proc = "up"
  /\ dpc = "inspect"
  /\ branch = "Stopped"
  /\ served = "none"
  /\ launched = 0
  /\ child = [r \in Runs |-> "none"]
  /\ stopRecv = [r \in Runs |-> FALSE]
  /\ wpc = [r \in Runs |-> "none"]
  /\ wErr = [r \in Runs |-> 0]
  /\ wElapsed = [r \in Runs |-> 0]
  /\ wIdle = [r \in Runs |-> 0]
  /\ wNext = [r \in Runs |-> 0]
  /\ wSleep = [r \in Runs |-> 0]
  /\ wLockT = [r \in Runs |-> 0]
  /\ wSkew = [r \in Runs |-> 0]
  /\ tpc = [r \in Runs |-> "none"]
  /\ tLockT = [r \in Runs |-> 0]
  /\ cpc = "idle"
  /\ cTimer = 0
  /\ calls = <<>>
  /\ ppc = "none"
  /\ dHeld = 0 /\ dOp = 0
  /\ pollInterval = 1 /\ idleTimeout = 0
  /\ vpc = "accepted"
  /\ vin = 0 /\ vval = 0 /\ vres = None
  /\ hres = "none"
  /\ hout = "nothing"

\* The first read returns a crafted handshake, or no data.
InitHandshake ==
  /\ InitInspect
  /\ hs \in Handshakes
  /\ peer \in Peers
  /\ peer.read # "data" =>
       /\ hs = [NoHandshake EXCEPT !.proto = 47, !.ns = 2]
       /\ peer = [QuietPeer EXCEPT !.read = peer.read]
  /\ vbuf = IF peer.read = "data" THEN Wire(hs) ELSE <<>>

NextHandshake == VerifyHandshake \/ HandleStatusPing \/ DispMatch

SpecHandshake == InitHandshake /\ [][NextHandshake]_vars

\* Byte values of arbitrary received data: the packet ID and an empty
\* address (0), the two next-states (1, 2), a continuation byte (128).
RecvBytes == {0, 1, 2, 128}
RECURSIVE ReceivedOfLen(_)
ReceivedOfLen(n) ==
  IF n = 0 THEN {<<>>}
  ELSE {Append(b, x) : b \in ReceivedOfLen(n - 1), x \in RecvBytes}

\* The first read returns n >= 1 arbitrary bytes.
InitBytes ==
  /\ InitInspect
  /\ hs = NoHandshake
  /\ peer = QuietPeer
  /\ \E n \in 1..MaxRecv : vbuf \in ReceivedOfLen(n)

SpecBytes == InitBytes /\ [][NextHandshake]_vars

\* ------------------------------------------------------------ properties
\* The pairs (current, requested) the lifecycle graph allows.
LegalPairs ==
  {<<"Stopped", "Starting">>, <<"Starting", "Running">>,
   <<"Starting", "Stopped">>, <<"Running", "Stopped">>,
   <<"Stopped", "Stopped">>}

\* C1: switch_to succeeds exactly for Stopped->Starting, Starting->Running,
\* Starting->Stopped, Running->Stopped and Stopped->Stopped, and answers with
\* an error for every other pair of current and requested state.
C1_SwitchToTruthTable ==
  \A i \in 1..Len(calls) :
    calls[i].ok <=> (<<calls[i].from, calls[i].to>> \in LegalPairs)

\* A log with a rejected Stopped->Running, an accepted Stopped->Stopped and a
\* rejected Starting->Starting.
C1_Witness ==
  \E i, j, k \in 1..Len(calls) :
    /\ calls[i] = [from |-> "Stopped", to |-> "Running", ok |-> FALSE]
    /\ calls[j] = [from |-> "Stopped", to |-> "Stopped", ok |-> TRUE]
    /\ calls[k] = [from |-> "Starting", to |-> "Starting", ok |-> FALSE]

\* The step just taken was a call of switch_to.
Called == Len(calls') = Len(calls) + 1
LastCall == calls'[Len(calls')]

\* C2: a rejected switch_to leaves the state as it was and the caller goes on
\* (it can call again); Stopped->Stopped succeeds and changes neither the
\* state nor any task.
C2_RejectionIsHarmless ==
  [][Called =>
       /\ ~LastCall.ok => state' = state
       /\ ~LastCall.ok /\ Len(calls') < MaxCalls => (ENABLED NextSwitch)'
       /\ (LastCall.from = "Stopped" /\ LastCall.to = "Stopped") =>
            /\ LastCall.ok
            /\ state' = "Stopped"
            /\ UNCHANGED <<wpc, tpc, child, launched, lock, proc>>]_vars

\* A rejected call (Running->Starting) was followed by an accepted
\* Running->Stopped.
C2_Witness ==
  \E i \in 1..Len(calls) :
    /\ i < Len(calls)
    /\ calls[i] = [from |-> "Running", to |-> "Starting", ok |-> FALSE]
    /\ calls[i + 1] = [from |-> "Running", to |-> "Stopped", ok |-> TRUE]

\* The launched children that have not exited.
Alive == {r \in Runs : child[r] = "alive"}

\* C3: at most one child process launched by the supervisor is alive at any
\* time: launch_server is never called while an earlier child still runs.
C3_SingleChild == Cardinality(Alive) <= 1

\* main_loop finished an iteration it began by inspecting a handshake that
\* was no login (or could not be read).
ProbeServed == dpc = "inspect" /\ dpc' = "accept"

\* C4: a connection whose handshake is not a login, or fails, handled in
\* Stopped or Starting leaves the state as it was when the connection was
\* accepted and launches no child and spawns no task.
C4_ProbeChangesNothing ==
  [][ProbeServed =>
       /\ branch \in {"Stopped", "Starting"}
       /\ state = branch /\ state' = branch
       /\ launched' = launched /\ child' = child
       /\ wpc' = wpc /\ tpc' = tpc]_vars

\* A status probe got its MOTD while a watchdog was still connecting.
C4_Witness ==
  /\ dpc = "accept" /\ branch = "Starting" /\ served = "motd"
  /\ state = "Starting" /\ launched = 1 /\ wpc[1] \in WdConnectPcs

\* main_loop left the Stopped arm after a login handshake.
LoginServedStopped ==
  dpc = "refuse" /\ branch = "Stopped" /\ dpc' \in {"accept", "returned"}

\* C5: a login handshake in Stopped has the refusal written, the child
\* launched, the state set to Starting and exactly one watchdog and one waiter
\* spawned for that child; the state is Starting only if a child was launched.
C5_LoginLaunches ==
  [][LoginServedStopped =>
       /\ served' \in {"refusal", "dropped"}
       /\ state' = "Starting"
       /\ launched' = launched + 1
       /\ child' = [child EXCEPT ![launched + 1] = "alive"]
       /\ wpc' = [wpc EXCEPT ![launched + 1] = "connect"]
       /\ tpc' = [tpc EXCEPT ![launched + 1] = "wait"]]_vars

\* main_loop left the Starting arm after a login handshake.
LoginServedStarting ==
  dpc = "refuse" /\ branch = "Starting" /\ dpc' = "accept"

\* C6: a login handshake in Starting only has the refusal written: no second
\* launch, no new watchdog or waiter, the state stays Starting.
C6_LoginWhileStarting ==
  [][LoginServedStarting =>
       /\ served' \in {"refusal", "dropped"}
       /\ state = "Starting" /\ state' = "Starting"
       /\ launched' = launched /\ child' = child
       /\ wpc' = wpc /\ tpc' = tpc]_vars

\* A login was refused in the Starting arm while the only child ran.
C6_Witness ==
  /\ dpc = "accept" /\ branch = "Starting" /\ served = "refusal"
  /\ state = "Starting" /\ launched = 1 /\ Alive = {1}

\* The watchdog of run r sends `list` (and perhaps `stop`), or writes the state.
WdSends(r) ==
  \E ok \in BOOLEAN, n \in Counts, s \in BOOLEAN :
    WdPoll(r, ok, n, s) \/ WdRetryList(r, ok, n, s)
WdWrites(r) == WdSetRunning(r) \/ WdSetStopped(r)

\* The state has left Running through the waiter of run r or the coordinator.
LeftRunning(r) ==
  \/ tpc[r] = "done"
  \/ cpc \in {"stopcmd", "sleep"} /\ wpc[r] # "none"

\* C7: once the state has left Running through the child waiter or the
\* shutdown coordinator, the watchdog of that run is cancelled: it sends no
\* further list or stop command and writes the state no more.
C7_WatchdogSilenced ==
  [][\A r \in Runs : LeftRunning(r) => ~(WdSends(r) \/ WdWrites(r))]_vars

\* A login handshake served in Stopped launches a fresh child, alive, with a
\* watchdog and a waiter of its own.
FreshLaunch ==
  LoginServedStopped =>
    /\ state' = "Starting"
    /\ launched' = launched + 1
    /\ child[launched + 1] = "none" /\ child'[launched + 1] = "alive"
    /\ wpc'[launched + 1] = "connect" /\ tpc'[launched + 1] = "wait"

\* C8: when every command succeeds and reports no player, a Running
\* supervisor's watchdog eventually sends stop and ends with success; once
\* the child has exited the state eventually becomes Stopped; and from
\* Stopped a login handshake starts a fresh child again.
C8_IdleCycle ==
  /\ \A r \in Runs :
       (state = "Running" /\ wpc[r] \in WdPollPcs) ~> (wpc[r] = "done_ok")
  /\ \A r \in Runs :
       (wpc[r] = "done_ok" /\ child[r] = "exited") ~>
         (state = "Stopped" /\ tpc[r] = "done")
  /\ [][FreshLaunch]_vars

\* The second cycle is under way: run 1 went Running, idle, stopped and was
\* observed by its waiter, and run 2 is Running.
C8_Witness ==
  /\ wpc[1] = "done_ok" /\ child[1] = "exited" /\ tpc[1] = "done"
  /\ launched = 2 /\ child[2] = "alive" /\ state = "Running"
  /\ wpc[2] = "tick"

\* The watchdog of run r gets a `list` reply with n players, at a tick or
\* after a back-off.
Reply(r, n) ==
  \E s \in BOOLEAN : WdPoll(r, TRUE, n, s) \/ WdRetryList(r, TRUE, n, s)
\* The reply arrives at a tick, the command having succeeded at once.
ReplyAtTick(r, n) == \E s \in BOOLEAN : WdPoll(r, TRUE, n, s)
\* The watchdog of run r sends `stop` and returns Ok.
SendsStop(r) == wpc[r] # "done_ok" /\ wpc'[r] = "done_ok"

\* C9 (as the code has it): the reference instant is last_online, set when the
\* poll loop is entered, after the watchdog has taken the lock and recorded
\* Running, and set again at every poll with a player online.  Stop is sent
\* exactly at the polls that report no player when the time since the
\* reference is at least the idle timeout; with a positive idle timeout, a
\* poll that is answered at its tick sends it less than one poll interval
\* after the idle timeout (with interval 1 and timeout 3: at 3, in the window
\* [3, 4)).
C9_IdleTrip ==
  [][\A r \in Runs :
       /\ SendsStop(r) => Reply(r, 0) /\ wIdle[r] >= idleTimeout
       /\ Reply(r, 0) => (SendsStop(r) <=> wIdle[r] >= idleTimeout)
       /\ Reply(r, 1) => wIdle'[r] = 0 /\ ~SendsStop(r)
       /\ WdSetRunning(r) => wIdle'[r] = 0
       /\ ReplyAtTick(r, 0) /\ SendsStop(r) /\ idleTimeout > 0 =>
            wIdle[r] < idleTimeout + pollInterval]_vars

\* Interval 1, timeout 3: stop was sent with 3 on the idle clock.
C9_Witness ==
  /\ pollInterval = 1 /\ idleTimeout = 3
  /\ wpc[1] = "done_ok" /\ wIdle[1] = 3

\* C9 (as stated): the reference instant is initially the moment the
\* administration connect succeeded, so stop is sent at the first poll that
\* reports no player once the idle timeout has passed since then.
C9_IdleTripSinceConnect ==
  [][\A r \in Runs :
       Reply(r, 0) => (SendsStop(r) <=> wIdle[r] + wSkew[r] >= idleTimeout)]_vars

\* A `list` command of run r fails / succeeds.
ListFails(r) ==
  \E n \in Counts, s \in BOOLEAN :
    WdPoll(r, FALSE, n, s) \/ WdRetryList(r, FALSE, n, s)
ListSucceeds(r) == \E n \in Counts : Reply(r, n)

\* C10: a failed `list` is retried after 1 s at most 5 times in a row; the 6th
\* consecutive failure ends the poll loop with an error; any success sets the
\* failure count back to zero.
C10_BoundedRetries ==
  [][\A r \in Runs :
       /\ wErr[r] <= 5
       /\ ListFails(r) /\ wErr[r] < 5 =>
            /\ wErr'[r] = wErr[r] + 1
            /\ wpc'[r] = "backoff" /\ wSleep'[r] = 1
       /\ ListFails(r) /\ wErr[r] = 5 => wpc'[r] = "lock_fail"
       /\ wpc[r] = "backoff" /\ wpc'[r] # "backoff" => wSleep[r] = 0
       /\ wpc[r] = "lock_fail" => wpc'[r] \in {"lock_fail", "done_err", "panicked"}
       /\ ListSucceeds(r) => wErr'[r] = 0]_vars

\* The 6th failure in a row has just ended the poll loop.
C10_Witness == wpc[1] = "lock_fail" /\ wErr[1] = 5 /\ state = "Running"

\* A connect attempt of run r fails / succeeds.
ConnectFails(r) == WdConnect(r, FALSE)
ConnectSucceeds(r) == WdConnect(r, TRUE)

\* C11: the connect phase of the watchdog ends.  A failed connect with at most
\* 600 s elapsed since the watchdog started is followed by a 1 s sleep and a
\* new attempt; the first failed connect after 600 s takes the error path; a
\* successful connect at any time ends the phase with success.
C11_ConnectPhase ==
  /\ [][\A r \in Runs :
         /\ ConnectFails(r) /\ wElapsed[r] <= 600 =>
              wpc'[r] = "retry" /\ wSleep'[r] = 1
         /\ ConnectFails(r) /\ wElapsed[r] > 600 => wpc'[r] = "lock_giveup"
         /\ ConnectSucceeds(r) => wpc'[r] = "lock_ready"
         /\ wpc[r] = "retry" /\ wpc'[r] # "retry" =>
              wSleep[r] = 0 /\ wpc'[r] = "connect"
         /\ wpc[r] = "lock_giveup" =>
              wpc'[r] \in {"lock_giveup", "done_err", "panicked"}]_vars
  /\ (wpc[1] \in WdConnectPcs) ~> (wpc[1] \notin WdConnectPcs)

\* The connect loop gave up: an attempt failed more than 600 s after the start.
C11_Witness == wpc[1] = "lock_giveup" /\ state = "Starting"

\* The coordinator's steps: the signal is handled, send_stop_command returns,
\* the process ends.
CoordHandles == cpc = "idle" /\ cpc' # "idle"
CoordStopReturns == cpc = "stopcmd" /\ cpc' # "stopcmd"
CoordStopDelivered == \E r \in Runs : ~stopRecv[r] /\ stopRecv'[r] /\ wpc'[r] = wpc[r]

\* C12 (as the code has it): on the signal the coordinator takes the lock;
\* exactly when the state is Running it switches to Stopped, releases the
\* lock and only then sends stop; when the command was sent it waits 10 s
\* before the process ends, when sending failed the process ends at once; in
\* every other state no stop is sent and the process ends.
C12_Coordinator ==
  [][/\ CoordHandles =>
          /\ lock' = "free"
          /\ (cpc' = "stopcmd") <=> (state = "Running")
          /\ state = "Running" => state' = "Stopped" /\ proc' = "up"
          /\ state # "Running" =>
               state' = state /\ cpc' = "done" /\ proc' = "exited"
          /\ stopRecv' = stopRecv
     /\ CoordStopReturns =>
          /\ lock = "free"
          /\ cpc' = "sleep" => cTimer' = 10 /\ proc' = "up"
          /\ cpc' # "sleep" => cpc' = "done" /\ proc' = "exited"
                                /\ stopRecv' = stopRecv
     /\ CoordStopDelivered => cpc = "stopcmd" /\ cpc' = "sleep"
     /\ cpc = "sleep" /\ cpc' # "sleep" =>
          cTimer = 0 /\ cpc' = "done" /\ proc' = "exited"]_vars

\* The coordinator left Running, its stop reached the game server and the
\* 10 s wait has begun.
C12_Witness ==
  /\ cpc = "sleep" /\ cTimer = 10 /\ state = "Stopped"
  /\ launched = 1 /\ stopRecv[1] /\ wpc[1] = "tick"

\* C12 (as stated): after leaving Running the coordinator sends stop and
\* waits 10 s before exiting.
C12_AlwaysWaits ==
  [][CoordStopReturns => cpc' = "sleep" /\ cTimer' = 10]_vars

\* C13: the accept loop never ends on its own: after an accept failure, a
\* handshake error, a set_nodelay failure or a launch failure main_loop keeps
\* accepting; the process ends only through the shutdown coordinator.
C13_ListenNeverReturns ==
  /\ dpc # "returned"
  /\ proc = "exited" => cpc = "done"

\* C14: for every non-negative i32 n, write_varint appends 1 to 5 bytes and
\* read_varint on those bytes returns n and the number of bytes.
C14_VarintRoundTrip ==
  /\ (vpc = "write" /\ vin >= 0) => Len(vbuf) <= 4
  /\ (vpc \in {"written", "read"} /\ vin >= 0) => Len(vbuf) \in 1..5
  /\ (vpc = "read" /\ vin >= 0) => vres = Some(vin, Len(vbuf))

\* The largest i32 went through 5 bytes and came back.
C14_Witness ==
  /\ vpc = "read" /\ vin = MaxI32
  /\ Len(vbuf) = 5 /\ vres = Some(MaxI32, 5)

\* C16: write_varint returns after appending 1 to 5 bytes for every i32,
\* the values with the sign bit set included.
C16_WriteTerminates ==
  /\ Len(vbuf) <= 5
  /\ Len(vbuf) = 5 => vpc # "write"

\* The bytes read_varint looks at: the first 5, or all if there are fewer.
Window == 1..Min(5, Len(vbuf))
Terminators == {i \in Window : vbuf[i] < 128}

\* C15: read_varint returns None exactly when the buffer is empty or none of
\* its first 5 bytes has the high bit clear; otherwise it returns a value
\* and a byte count in 1..5 that does not exceed the buffer length (the
\* position of the first byte with the high bit clear).  Five bytes 0x80
\* are malformed.
C15_ReadMalformed ==
  vpc = "parsed" =>
    /\ ~vres.ok <=> (vbuf = <<>> \/ Terminators = {})
    /\ vres.ok =>
         /\ vres.len \in 1..5 /\ vres.len <= Len(vbuf)
         /\ vres.len \in Terminators
         /\ \A i \in Terminators : vres.len <= i
         /\ vres.value \in MinI32..MaxI32
    /\ vbuf = <<128, 128, 128, 128, 128>> => ~vres.ok

\* Five continuation bytes were read and rejected, with a sixth byte that
\* would have ended the number.
C15_Witness ==
  /\ vpc = "parsed" /\ ~vres.ok
  /\ vbuf = <<128, 128, 128, 128, 128, 127>>

\* The crafted handshake is well-formed and was received whole.
WellFormed ==
  /\ peer.read = "data"
  /\ hs.id = 0
  /\ hs.alen = hs.addr
  /\ hs.cut = 0

C18_RunningOnlyAfterConnect ==
  [][(state' = "Running" /\ state # "Running") =>
       /\ wpc[launched] = "lock_ready"
       /\ WdSetRunning(launched)]_vars

\* C19: the state changes to Stopped only when no launched child is still
\* running without having been told to stop.
C19_StoppedOnlyAfterExit ==
  [][(state' = "Stopped" /\ state # "Stopped") =>
       \A r \in Runs : child[r] = "alive" => stopRecv[r]]_vars

\* C20: the idle watchdog never writes the lifecycle state: whatever step a
\* watchdog takes, the state is the same after it.
C20_WatchdogNeverWrites ==
  [][\A r \in Runs :
       (WdSetRunning(r) \/ WdSetStopped(r) \/ WdSends(r)
          \/ (\E ok \in BOOLEAN : WdConnect(r, ok)))
       => state' = state]_vars

\* A proxy task is connecting to the game server or copying bytes.
ProxyBusy == ppc \in {"dial", "splice"}

\* C21: in state Running main_loop goes from accept to accept without
\* inspecting the handshake; the step that spawns the proxy leaves the lock
\* free; main_loop holds the lock only while it inspects or refuses a
\* connection of the Stopped or Starting branch; the proxy's own steps touch
\* neither the lock nor main_loop; and while a proxy dials or copies,
\* main_loop can serve the next connection.
C21_ProxyOffLock ==
  /\ [][/\ (state = "Running" /\ dpc = "accept") =>
             dpc' \notin {"inspect", "refuse"}
        /\ (ppc' = "dial" /\ ppc # "dial") =>
             /\ state = "Running" /\ state' = "Running"
             /\ lock' = "free" /\ dpc' = "accept"
        /\ ppc' # ppc /\ ppc' # "dial" => UNCHANGED <<lock, dpc, state>>
       ]_vars
  /\ [](lock = "disp" =>
          dpc \in {"inspect", "refuse"} /\ branch \in {"Stopped", "Starting"})
  /\ []((ProxyBusy /\ proc = "up" /\ dpc = "accept" /\ lock = "free"
           /\ state = "Running") => ENABLED DispProxy)

\* While a proxy is still dialling, main_loop is back at accept with the
\* lock free and the watchdog is polling.
C21_Witness ==
  /\ ppc = "dial" /\ served = "proxy"
  /\ dpc = "accept" /\ lock = "free" /\ state = "Running"
  /\ wpc[1] = "backoff"

\* C22: when the 5-second lock timeout expires in a watchdog or in a child
\* waiter, the supervisor process aborts.
C22_LockTimeoutAborts ==
  [][(\E r \in Runs : WdLockTimeout(r) \/ WaiterLockTimeout(r))
       => proc' = "aborted"]_vars

\* The longest time one connection can keep the guard: read, drain, write.
HoldLimit == ReadLimit + DrainLimit + WriteLimit

\* C23: while main_loop holds the guard, a read, write or sleep it is
\* suspended in has not outlasted its deadline, no time passes in a socket
\* shutdown, and the guard has been held for at most HoldLimit seconds.
C23_BoundedHold ==
  lock = "disp" =>
    /\ dpc \in Deadlined => dOp <= OpLimit(dpc)
    /\ dpc \in Undeadlined => dOp = 0
    /\ dHeld <= HoldLimit

\* A status probe has kept the guard for the full 15 seconds.
C23_Witness ==
  /\ lock = "disp" /\ dpc = "shutdown"
  /\ dHeld = HoldLimit

\* C23 as stated: every await main_loop is suspended in with the guard held
\* (read, write, shutdown, sleep) has a deadline.
C23_EveryAwaitDeadlined ==
  (lock = "disp" /\ dpc \in Deadlined \cup Undeadlined) => dpc \in Deadlined

\* C24: the first read's zero bytes, connection reset and timeout give
\* not-login with nothing written, any other I/O error gives fail; and on
\* fail, as on not-login, main_loop drops the guard and goes back to accept
\* with the state, the children and the process untouched.
C24_FirstReadOutcomes ==
  /\ [](vpc \in {"returned", "matched"} =>
          /\ peer.read \in {"closed", "reset", "timeout"} =>
               hres = "not_login" /\ hout = "nothing"
          /\ peer.read = "error" => hres = "fail" /\ hout = "nothing"
          /\ (peer.read = "data" /\ Len(vbuf) = 0) => hres = "not_login")
  /\ [][(vpc' = "matched" /\ vpc # "matched" /\ hres \in {"fail", "not_login"})
         => /\ dpc' = "accept" /\ lock' = "free"
            /\ served' \in {"dropped", "motd"}
            /\ served' = "motd" <=> hout = "status"
            /\ UNCHANGED <<state, proc, launched, child, wpc, tpc>>]_vars

\* An I/O error other than a reset on the first read: fail, and main_loop
\* is back at accept in state Stopped.
C24_Witness ==
  /\ peer.read = "error" /\ hres = "fail" /\ vpc = "matched"
  /\ dpc = "accept" /\ lock = "free" /\ state = "Stopped" /\ launched = 0

\* send_starting_message has returned and the refusal was not delivered
\* (write error, write timeout or shutdown error).
RefusalLost == dpc = "refuse" /\ dpc' # "refuse" /\ served' = "dropped"

\* C25: a refusal that could not be delivered changes nothing: in the Stopped
\* arm the state still becomes Starting and, launch_server returning Ok, the
\* child, its watchdog and its waiter exist and main_loop goes on accepting;
\* in the Starting arm the state stays Starting and nothing is launched.
C25_RefusalFailureSwallowed ==
  [][RefusalLost =>
       /\ branch = "Stopped" =>
            /\ state' = "Starting"
            /\ dpc' = "accept" =>
                 /\ lock' = "free" /\ proc' = "up"
                 /\ launched' = launched + 1
                 /\ child'[launched'] = "alive"
                 /\ wpc'[launched'] = "connect"
                 /\ tpc'[launched'] = "wait"
       /\ branch = "Starting" =>
            /\ state = "Starting" /\ state' = "Starting"
            /\ dpc' = "accept" /\ lock' = "free" /\ proc' = "up"
            /\ launched' = launched /\ child' = child]_vars

\* The refusal was lost and the game server was launched all the same.
C25_Witness ==
  /\ served = "dropped" /\ branch = "Stopped" /\ dpc = "accept"
  /\ state = "Starting" /\ launched = 1 /\ child[1] = "alive"
  /\ wpc[1] = "connect" /\ tpc[1] = "wait"

\* C26: every change of the lifecycle state follows one of the edges
\* Stopped->Starting, Starting->Running, Starting->Stopped, Running->Stopped.
C26_LegalEdgesOnly ==
  [][state' # state =>
       <<state, state'>> \in {<<"Stopped", "Starting">>, <<"Starting", "Running">>,
                              <<"Starting", "Stopped">>, <<"Running", "Stopped">>}]_vars

\* C27: whenever the state is Running, a launched child exists whose exit
\* its waiter has not yet observed; and after the waiter of the child launched
\* last has recorded Stopped the state is not Running.
C27_RunningHasChild ==
  state = "Running" =>
    /\ \E r \in Runs : child[r] # "none" /\ tpc[r] \in {"wait", "lock"}
    /\ launched > 0 => tpc[launched] # "done"

\* A varint of exactly k bytes lies in buf at offset o, within the n bytes.
VarintAt(buf, o, k) ==
  /\ o + k <= Len(buf)
  /\ read_varint(SubSeq(buf, o + 1, o + k)).ok
  /\ read_varint(SubSeq(buf, o + 1, o + k)).len = k
ValueAt(buf, o, k) == read_varint(SubSeq(buf, o + 1, o + k)).value

\* Packet length, packet ID 0, protocol version, an address length >= 0,
\* the address bytes, the 2 port bytes and a next-state 2 all lie within buf.
FieldsWithin(buf) ==
  \E a, b, c, d, f \in 1..5 :
    /\ VarintAt(buf, 0, a)
    /\ VarintAt(buf, a, b) /\ ValueAt(buf, a, b) = 0
    /\ VarintAt(buf, a + b, c)
    /\ VarintAt(buf, a + b + c, d) /\ ValueAt(buf, a + b + c, d) >= 0
    /\ LET o == a + b + c + d + ValueAt(buf, a + b + c, d) + 2
       IN  VarintAt(buf, o, f) /\ ValueAt(buf, o, f) = 2

\* C28: for every received byte sequence of length 1..MaxRecv the handshake
\* inspector takes no slice that starts beyond the received bytes, so it does
\* not panic, and it answers login only if packet length, packet ID 0,
\* protocol version, a non-negative address length, the address, the port
\* and a next-state 2 lie entirely within the received bytes.
C28_ParseInBounds ==
  /\ vpc # "panicked"
  /\ LET starts == SliceStarts(vbuf)
     IN  \A i \in 1..Len(starts) : starts[i] <= Len(vbuf)
  /\ (vpc \in {"returned", "matched"} /\ hres = "login") => FieldsWithin(vbuf)

\* An address length that points past the received bytes was refused
\* without a read beyond them.
C28_Witness ==
  /\ vpc = "returned" /\ hres = "not_login"
  /\ vbuf = <<2, 0, 0, 2, 0>>

\* C29: while main_loop services one connection, the guard is held for less
\* than the 5 seconds after which a task waiting for the lock gives up, and
\* no watchdog has met that timeout.
C29_HoldBelowLockTimeout ==
  /\ lock = "disp" => dHeld < LockTimeout
  /\ \A r \in Runs : wpc[r] # "panicked"

\* C30: when the shutdown coordinator has finished after an interrupt, every
\* launched child that is still running has been sent a `stop` command.
C30_NoChildLeftRunning ==
  cpc = "done" => \A r \in Runs : child[r] = "alive" => stopRecv[r]

====
